---- MODULE Spec2Model ----
(***************************************************************************)
(* Model of the workflow run record of swissarmyhammer                     *)
(* (swissarmyhammer/src/workflow/run.rs): WorkflowRun::new, transition_to, *)
(* complete and fail, the file-backed abort marker                         *)
(* ".swissarmyhammer/.abort" that WorkflowRun::new removes, and the clock  *)
(* that chrono::Utc::now() reads.                                          *)
(***************************************************************************)
EXTENDS Integers, Sequences, FiniteSets, TLC

\* ------------------------------------------------------------------ bounds
\* Runs created in one behaviour.
MaxRuns == 2
\* Identifiers created by calls of WorkflowRunId::new() outside WorkflowRun::new.
MaxIds == 4
\* Largest value the generator draws for the random part of a fresh ULID.
MaxRand == 1
\* Tool invocations started in one behaviour.
MaxInv == 2
\* History entries kept by all runs together (each run is seeded with one).
MaxHist == 3
\* Largest clock value.
MaxTime == 1
\* Longest string get_last_commit_info returns.
MaxInfoLen == 11
\* Prompts in a library.
MaxPrompts == 2

\* ------------------------------------------------------------------ values
\* Option<T>: None is the empty tuple, Some(x) the one-element tuple.
None == <<>>
Some(x) == <<x>>

\* enum WorkflowRunStatus
Running == "Running"
Completed == "Completed"
Failed == "Failed"
Cancelled == "Cancelled"
Paused == "Paused"
WorkflowRunStatus == {Running, Completed, Failed, Cancelled, Paused}

\* StateId values passed to transition_to.
StateIds == {"start", "processing"}

\* The Workflow value a run is created from; only initial_state is read.
Workflows == [name : {"Test Workflow"}, initial_state : {"start"}]

\* Content written to the abort marker (a free-text reason).
AbortReasons == {"test abort reason"}

\* HashMap::default()
EmptyMap == <<>>

\* ------------------------------------------------------------------ state
VARIABLES
    runs,        \* the WorkflowRun values created so far, in creation order
    abort_file,  \* ".swissarmyhammer/.abort": None (absent) or Some(reason)
    clock,       \* the value chrono::Utc::now() returns
    pending,     \* runs in which an action raised the abort, not yet observed
    lastOp,      \* the most recent call: operation, run, inputs and what it logged
    exec,        \* per run, the Executor driving it: position, last result, stop cause
    ids,         \* the WorkflowRunId values created so far, in creation order
    ulid_last,   \* the monotonic generator's previous ULID, None before the first
    inv,         \* the tool invocations started so far: operation, request, position, result
    store_readers, \* the invocations holding a read guard of issue_storage
    store_writers, \* the invocations holding a write guard of issue_storage
    git_holders, \* the invocations holding the guard of git_ops
    issue,       \* the issue store behind issue_storage: one issue's content and flag
    git_ops,     \* the Option<GitOperations> behind the git_ops mutex
    tpl,         \* the Template value the last constructor returned, None after an Err
    env,         \* the environment variables of the process (std::env::vars)
    config,      \* the variables of sah.toml, None when there is no configuration
    out,         \* the last render call on tpl: method, arguments, result
    commit,      \* what get_last_commit_info returned after a merge, and the message part built from it
    cli,         \* the last run_prompt_command call: subcommand, what it ran returned, its result
    partials     \* the PromptPartialSource built last, and the last lookup made on it

\* The state of the identifier generator.
idVars == <<ids, ulid_last>>

\* The state of the tool handlers.
handlerVars == <<inv, store_readers, store_writers, git_holders, issue, git_ops>>

\* The state outside the run records, the abort marker and the clock.
\* The state of the template renderer and of what it reads.
templateVars == <<tpl, env, config, out>>

\* The state of the calls modelled one at a time: the commit information of
\* a merge, the prompt command, the partial source.
callVars == <<commit, cli, partials>>

nonRunVars == <<exec, idVars, handlerVars, templateVars, callVars>>

vars == <<runs, abort_file, clock, pending, lastOp, nonRunVars>>

\* ------------------------------------------------------------------ abort marker
\* Results of std::fs::remove_file on the marker.
RmOk == "Ok"
RmNotFound == "NotFound"
RmOtherErr == "OtherErr"

\* The results remove_file can produce for a marker in state `file`: Ok only
\* when it exists, NotFound only when it does not, another I/O error
\* (e.g. PermissionDenied) in either case.
RemoveOutcomes(file) == IF file = None THEN {RmNotFound, RmOtherErr} ELSE {RmOk, RmOtherErr}

\* Variant of remove_file: the call removes another path, the marker stays.
remove_file_wrong_path(file, outcome) == file

\* std::fs::remove_file: the marker after the call.
remove_file(file, outcome) == IF outcome = RmOk THEN None ELSE file

\* The match in WorkflowRun::new on the result of remove_file: what is logged.
cleanup_log(outcome) ==
    CASE outcome = RmOk -> "debug: Cleaned up existing abort file"
      [] outcome = RmNotFound -> ""
      [] OTHER -> "warn: Failed to clean up abort file"

\* ------------------------------------------------------------------ WorkflowRun
\* Variant of new: completed_at initialised to the creation time.
new_completed_at_now(workflow, now, id) ==
    [ id            |-> id,
      workflow      |-> workflow,
      current_state |-> workflow.initial_state,
      history       |-> << <<workflow.initial_state, now>> >>,
      context       |-> EmptyMap,
      status        |-> Running,
      started_at    |-> now,
      completed_at  |-> Some(now),
      metadata      |-> EmptyMap ]

\* WorkflowRun::new, after the marker cleanup: the struct literal; id is
\* the identifier WorkflowRunId::new() returns.
new(workflow, now, id) ==
    [ id            |-> id,
      workflow      |-> workflow,
      current_state |-> workflow.initial_state,
      history       |-> << <<workflow.initial_state, now>> >>,
      context       |-> EmptyMap,
      status        |-> Running,
      started_at    |-> now,
      completed_at  |-> None,
      metadata      |-> EmptyMap ]

\* Variant of transition_to: current_state is not updated.
transition_to_keeps_current(run, state_id, now) ==
    [run EXCEPT !.history = Append(@, <<state_id, now>>)]

\* Variant of transition_to: the run is resumed (status back to Running).
transition_to_resumes(run, state_id, now) ==
    [run EXCEPT !.history = Append(@, <<state_id, now>>),
                !.current_state = state_id,
                !.status = Running]

\* Variant of transition_to: the run is reopened (completed_at cleared).
transition_to_reopens(run, state_id, now) ==
    [run EXCEPT !.history = Append(@, <<state_id, now>>),
                !.current_state = state_id,
                !.completed_at = None]

\* Variant of transition_to: a run that is not Running is left alone.
transition_to_guarded(run, state_id, now) ==
    IF run.status = Running
    THEN [run EXCEPT !.history = Append(@, <<state_id, now>>),
                     !.current_state = state_id]
    ELSE run

\* Variant of transition_to: an entry with the timestamp of the last entry
\* replaces it instead of following it.
transition_to_dedups_tick(run, state_id, now) ==
    LET h == run.history IN
    [run EXCEPT !.history = IF h[Len(h)][2] = now /\ Len(h) > 1
                            THEN Append(SubSeq(h, 1, Len(h) - 1), <<state_id, now>>)
                            ELSE Append(h, <<state_id, now>>),
                !.current_state = state_id]

\* Variant of transition_to: current_state is set, the history entry is not pushed.
transition_to_no_history(run, state_id, now) ==
    [run EXCEPT !.current_state = state_id]

\* WorkflowRun::transition_to
transition_to(run, state_id, now) ==
    [run EXCEPT !.history = Append(@, <<state_id, now>>),
                !.current_state = state_id]

\* Variant of complete: completed_at is written, the status is not.
complete_keeps_status(run, now) ==
    [run EXCEPT !.completed_at = Some(now)]

\* WorkflowRun::complete
complete(run, now) ==
    [run EXCEPT !.status = Completed, !.completed_at = Some(now)]

\* Variant of fail: completed_at is not written.
fail_without_completed_at(run, now) ==
    [run EXCEPT !.status = Failed]

\* WorkflowRun::fail
fail(run, now) ==
    [run EXCEPT !.status = Failed, !.completed_at = Some(now)]

\* ------------------------------------------------------------------ identifiers of runs
\* A ULID is a timestamp (milliseconds) and a random part; Ulid orders them
\* as one number, timestamp first (the derived Ord of WorkflowRunId).
UlidLess(a, b) == a.ts < b.ts \/ (a.ts = b.ts /\ a.rand < b.rand)

\* The monotonic generator (crate::common::generate_monotonic_ulid, not among
\* the sources at hand; from the design description: a counter tie-break that
\* preserves ordering): within the tick of the previous ULID, or behind it,
\* the previous random part plus one; in a later tick a fresh random part.
generate_monotonic_ulid(last, now, fresh) ==
    IF last # None /\ now <= last[1].ts
    THEN [ts |-> last[1].ts, rand |-> last[1].rand + 1]
    ELSE [ts |-> now, rand |-> fresh]

\* Variant of WorkflowRunId::new: a plain random ULID (Ulid::new()).
WorkflowRunId_new_random(last, now, fresh) == [ts |-> now, rand |-> fresh]

\* WorkflowRunId::new
WorkflowRunId_new(last, now, fresh) == generate_monotonic_ulid(last, now, fresh)

\* The code points of the Crockford base-32 alphabet
\* 0123456789ABCDEFGHJKMNPQRSTVWXYZ, by digit value.
Crockford ==
    << 48, 49, 50, 51, 52, 53, 54, 55, 56, 57,
       65, 66, 67, 68, 69, 70, 71, 72, 74, 75, 77, 78,
       80, 81, 82, 83, 84, 86, 87, 88, 89, 90 >>

\* n written with `width` base-32 digits, most significant first.
RECURSIVE Base32(_, _)
Base32(n, width) ==
    IF width = 0 THEN <<>>
    ELSE Append(Base32(n \div Len(Crockford), width - 1), Crockford[(n % Len(Crockford)) + 1])

\* Display for WorkflowRunId: the ULID's canonical string, the digits of the
\* timestamp followed by the digits of the random part, each of fixed width.
to_string(id) == Base32(id.ts, 2) \o Base32(id.rand, 2)

\* s < t for strings (sequences of code points), lexicographically.
RECURSIVE StrLess(_, _)
StrLess(s, t) ==
    IF t = <<>> THEN FALSE
    ELSE IF s = <<>> THEN TRUE
    ELSE IF Head(s) # Head(t) THEN Head(s) < Head(t)
    ELSE StrLess(Tail(s), Tail(t))

\* The generator's reading of the clock in milliseconds, and the random part
\* it draws: spread out so that the encodings differ in every digit.
NowMillis == clock * 24
RandomPart(fresh) == fresh * 16

\* ------------------------------------------------------------------ actions
\* Total number of history entries of the runs rs.
RECURSIVE TotalHist(_)
TotalHist(rs) == IF rs = <<>> THEN 0 ELSE Len(Head(rs).history) + TotalHist(Tail(rs))

\* The record of a call: which operation, on which run, with which argument,
\* the clock value it read, the run's status and completed_at and the marker
\* before the call, what remove_file returned and what was logged.
NoOp == [op |-> "init", run |-> 0, arg |-> "", now |-> 0, pre_status |-> "",
         pre_completed_at |-> None, pre_abort |-> None, outcome |-> "", log |-> ""]

\* The Executor of a run before its first iteration: at the abort check, no
\* action result yet, not stopped; `clean` records that every action so far
\* returned Success with the update completed = true.
ExecStart == [pc |-> "check", cause |-> "", result |-> "", clean |-> TRUE]

\* No run, no abort marker, no identifier yet.
InitRuns ==
    /\ runs = <<>>
    /\ abort_file = None
    /\ clock = 0
    /\ pending = {}
    /\ lastOp = NoOp
    /\ exec = [r \in 1..MaxRuns |-> ExecStart]
    /\ ids = <<>>
    /\ ulid_last = None
    /\ tpl = None
    /\ env = EmptyMap
    /\ config = None
    /\ out = None
    /\ commit = None
    /\ cli = None
    /\ partials = None

\* ToolHandlers::new: the shared issue store and version-control handle as
\* handed in, no invocation running, no guard held. The store holds one
\* issue; its content is kept as the two halves a write puts down in turn.
ToolHandlers_new(completed, git) ==
    /\ inv = <<>>
    /\ store_readers = {}
    /\ store_writers = {}
    /\ git_holders = {}
    /\ issue = [content |-> <<"initial", "initial">>, completed |-> completed, count |-> 1]
    /\ git_ops = git

Init ==
    /\ InitRuns
    /\ ToolHandlers_new(FALSE, Some("repo"))

\* The tool handlers over a store whose issue is pending or completed, with
\* or without a version-control handle.
InitHandlers ==
    /\ InitRuns
    /\ \E completed \in BOOLEAN, git \in {None, Some("repo")} : ToolHandlers_new(completed, git)

\* The clock advances between calls; two calls may read the same value.
Tick ==
    /\ clock < MaxTime
    /\ clock' = clock + 1
    /\ UNCHANGED <<runs, abort_file, pending, lastOp>>
    /\ UNCHANGED nonRunVars

\* chrono::Utc::now() reads the wall clock, which is not monotonic: between
\* two calls the system time may be set back (by hand, by a time
\* synchronisation), and the later call reads the smaller value.
ClockSetBack ==
    /\ clock > 0
    /\ clock' \in 0..(clock - 1)
    /\ UNCHANGED <<runs, abort_file, pending, lastOp>>
    /\ UNCHANGED nonRunVars

\* The marker is written from outside any run (std::fs::write in the tests).
RaiseAbort(reason) ==
    /\ abort_file' = Some(reason)
    /\ lastOp' = [NoOp EXCEPT !.op = "raise", !.arg = reason, !.now = clock,
                              !.pre_abort = abort_file]
    /\ UNCHANGED <<runs, clock, pending>>
    /\ UNCHANGED nonRunVars

\* Variant of New: an I/O error of remove_file other than NotFound is
\* propagated, the call is made but no run is returned.
New_propagates_error(workflow, outcome, later, fresh) ==
    /\ Len(runs) < MaxRuns
    /\ TotalHist(runs) < MaxHist
    /\ outcome \in RemoveOutcomes(abort_file)
    /\ abort_file' = remove_file(abort_file, outcome)
    /\ clock' = IF outcome = RmOtherErr THEN clock ELSE later
    /\ LET id == WorkflowRunId_new(ulid_last, NowMillis', RandomPart(fresh))
       IN IF outcome = RmOtherErr
          THEN UNCHANGED <<runs, ids, ulid_last>>
          ELSE /\ runs' = Append(runs, new(workflow, clock, id))
               /\ ids' = Append(ids, id)
               /\ ulid_last' = Some(id)
    /\ lastOp' = [NoOp EXCEPT !.op = "new", !.run = Len(runs) + 1, !.now = clock,
                              !.pre_abort = abort_file, !.outcome = outcome,
                              !.log = cleanup_log(outcome)]
    /\ UNCHANGED pending
    /\ UNCHANGED <<exec, handlerVars, templateVars, callVars>>

\* A call of WorkflowRun::new(workflow); `outcome` is what remove_file
\* returns. The call reads the wall clock twice: chrono::Utc::now() gives
\* the time of started_at and of the first history entry, and afterwards
\* the generator behind WorkflowRunId::new() reads it again for the run's
\* id. `later` is the second reading, which may be after or before the
\* first; `fresh` selects the random part the generator draws.
New(workflow, outcome, later, fresh) ==
    /\ Len(runs) < MaxRuns
    /\ TotalHist(runs) < MaxHist
    /\ outcome \in RemoveOutcomes(abort_file)
    /\ abort_file' = remove_file(abort_file, outcome)
    /\ clock' = later
    /\ LET id == WorkflowRunId_new(ulid_last, NowMillis', RandomPart(fresh))
       IN /\ runs' = Append(runs, new(workflow, clock, id))
          /\ ids' = Append(ids, id)
          /\ ulid_last' = Some(id)
    /\ lastOp' = [NoOp EXCEPT !.op = "new", !.run = Len(runs) + 1, !.now = clock,
                              !.pre_abort = abort_file, !.outcome = outcome,
                              !.log = cleanup_log(outcome)]
    /\ UNCHANGED pending
    /\ UNCHANGED <<exec, handlerVars, templateVars, callVars>>

\* The record of a call of a method of the r-th run.
MethodCall(op, r, arg) ==
    [NoOp EXCEPT !.op = op, !.run = r, !.arg = arg, !.now = clock,
                 !.pre_status = runs[r].status,
                 !.pre_completed_at = runs[r].completed_at,
                 !.pre_abort = abort_file]

\* A call of run.transition_to(state_id) on the r-th run.
TransitionTo(r, state_id) ==
    /\ r \in 1..Len(runs)
    /\ TotalHist(runs) < MaxHist
    /\ runs' = [runs EXCEPT ![r] = transition_to(@, state_id, clock)]
    /\ lastOp' = MethodCall("transition_to", r, state_id)
    /\ UNCHANGED <<abort_file, clock, pending>>
    /\ UNCHANGED nonRunVars

\* A call of run.complete() on the r-th run.
Complete(r) ==
    /\ r \in 1..Len(runs)
    /\ runs' = [runs EXCEPT ![r] = complete(@, clock)]
    /\ lastOp' = MethodCall("complete", r, "")
    /\ UNCHANGED <<abort_file, clock, pending>>
    /\ UNCHANGED nonRunVars

\* A call of run.fail() on the r-th run.
Fail(r) ==
    /\ r \in 1..Len(runs)
    /\ runs' = [runs EXCEPT ![r] = fail(@, clock)]
    /\ lastOp' = MethodCall("fail", r, "")
    /\ UNCHANGED <<abort_file, clock, pending>>
    /\ UNCHANGED nonRunVars

Next ==
    \/ Tick
    \/ ClockSetBack
    \/ \E reason \in AbortReasons : RaiseAbort(reason)
    \/ \E w \in Workflows, o \in {RmOk, RmNotFound, RmOtherErr}, later \in 0..MaxTime,
          fresh \in 0..MaxRand :
           New(w, o, later, fresh)
    \/ \E r \in 1..MaxRuns, s \in StateIds : TransitionTo(r, s)
    \/ \E r \in 1..MaxRuns : Complete(r)
    \/ \E r \in 1..MaxRuns : Fail(r)

Spec == Init /\ [][Next]_vars

\* The public maps of a run as its owner may have filled them after new:
\* context with a variable, metadata with a note.
Contexts == {EmptyMap, [input |-> "value"]}
Metadatas == {EmptyMap, [note |-> "debug"]}

\* One run, just created at time `now` with the clock read again for its id,
\* whose owner has filled its context and metadata; the marker is absent, as
\* new leaves it.
InitFrames ==
    /\ \E workflow \in Workflows, context \in Contexts, metadata \in Metadatas,
          now \in 0..MaxTime, fresh \in 0..MaxRand :
           LET id == WorkflowRunId_new(None, NowMillis, RandomPart(fresh))
           IN /\ clock \in 0..MaxTime
              /\ runs = << [new(workflow, now, id) EXCEPT !.context = context,
                                                          !.metadata = metadata] >>
              /\ ids = <<id>>
              /\ ulid_last = Some(id)
    /\ abort_file = None
    /\ pending = {}
    /\ lastOp = NoOp
    /\ exec = [r \in 1..MaxRuns |-> ExecStart]
    /\ tpl = None
    /\ env = EmptyMap
    /\ config = None
    /\ out = None
    /\ commit = None
    /\ cli = None
    /\ partials = None
    /\ ToolHandlers_new(FALSE, Some("repo"))

\* The methods of the run, the clock and the marker written from outside.
NextFrames ==
    \/ Tick
    \/ ClockSetBack
    \/ \E reason \in AbortReasons : RaiseAbort(reason)
    \/ \E r \in 1..MaxRuns, s \in StateIds : TransitionTo(r, s)
    \/ \E r \in 1..MaxRuns : Complete(r)
    \/ \E r \in 1..MaxRuns : Fail(r)

SpecFrames == InitFrames /\ [][NextFrames]_vars

\* ------------------------------------------------------------------ executor and abort signal
\* The Executor and the raising of the abort signal by an action are no part of
\* run.rs; they follow the design description: an action may raise the signal
\* during a run, and the Executor checks it before each transition and, when it
\* is raised, moves the run to Cancelled and stops, without clearing it.

\* Variant of cancel: an abort is recorded as a failure.
cancel_as_failed(run, now) ==
    [run EXCEPT !.status = Failed, !.completed_at = Some(now)]

\* Run cancel(): the terminal transition to Cancelled, which sets completed_at.
cancel(run, now) ==
    [run EXCEPT !.status = Cancelled, !.completed_at = Some(now)]

\* An action executing in the r-th run raises the abort signal.
ActionRaisesAbort(r, reason) ==
    /\ r \in 1..Len(runs)
    /\ runs[r].status = Running
    /\ abort_file' = Some(reason)
    /\ pending' = pending \cup {r}
    /\ lastOp' = MethodCall("action_raise", r, reason)
    /\ UNCHANGED <<runs, clock>>
    /\ UNCHANGED nonRunVars

\* Variant of ExecutorPoll: the Executor clears the signal it has observed.
ExecutorPoll_clears_marker(r) ==
    /\ r \in 1..Len(runs)
    /\ runs[r].status = Running
    /\ abort_file # None
    /\ runs' = [runs EXCEPT ![r] = cancel(@, clock)]
    /\ pending' = pending \ {r}
    /\ lastOp' = MethodCall("poll", r, "")
    /\ abort_file' = None
    /\ UNCHANGED clock
    /\ UNCHANGED nonRunVars

\* The Executor of the r-th run reaches its poll point and finds the signal
\* raised: the run is cancelled, the marker is left in place.
ExecutorPoll(r) ==
    /\ r \in 1..Len(runs)
    /\ runs[r].status = Running
    /\ abort_file # None
    /\ runs' = [runs EXCEPT ![r] = cancel(@, clock)]
    /\ pending' = pending \ {r}
    /\ lastOp' = MethodCall("poll", r, "")
    /\ UNCHANGED <<abort_file, clock>>
    /\ UNCHANGED nonRunVars

NextExec ==
    \/ Next
    \/ \E r \in 1..MaxRuns, reason \in AbortReasons : ActionRaisesAbort(r, reason)
    \/ \E r \in 1..MaxRuns : ExecutorPoll(r)

SpecExec == Init /\ [][NextExec]_vars

\* ------------------------------------------------------------------ executor loop
\* The Executor's driver loop is no part of the sources at hand; it follows the
\* design description (Executor, Action Dispatch, Workflow Definition). Each
\* run is driven by its own Executor, which owns the run exclusively.

\* The workflow definition of the end-to-end property: states start, working
\* and done, start -> working unconditional, working -> done when the context
\* flag completed is true, done terminal.
ExecTransitions ==
    << [from |-> "start", cond |-> "always", to |-> "working"],
       [from |-> "working", cond |-> "completed", to |-> "done"] >>

ExecTerminal == {"done"}

\* ActionResult: Success with or without the context update completed = true,
\* a Recoverable failure, a Fatal failure.
ActionResults == {"Success", "SuccessCompleted", "Recoverable", "Fatal"}

\* The context updates an ActionResult carries.
Updates(result) == IF result = "SuccessCompleted" THEN [completed |-> TRUE] ELSE EmptyMap

\* Merging context updates into the run's context.
MergeContext(ctx, upd) ==
    [k \in DOMAIN ctx \cup DOMAIN upd |-> IF k \in DOMAIN upd THEN upd[k] ELSE ctx[k]]

\* A transition condition evaluated against a context.
CondHolds(cond, ctx) ==
    \/ cond = "always"
    \/ cond = "completed" /\ ctx # EmptyMap /\ ctx.completed

\* The target of the first transition from `state` whose condition holds in
\* ctx, as Some(target); None when no transition applies.
NextState(state, ctx) ==
    LET ok == {i \in 1..Len(ExecTransitions) :
                  ExecTransitions[i].from = state /\ CondHolds(ExecTransitions[i].cond, ctx)}
    IN IF ok = {} THEN None
       ELSE Some(ExecTransitions[CHOOSE i \in ok : \A j \in ok : i <= j].to)

\* The run after the iteration of the loop that got `result` from Action
\* Dispatch: a Fatal result fails the run; otherwise the updates are merged,
\* the next state is resolved against the updated context, and the run fails
\* when no transition applies, else moves there and completes when the state
\* is terminal.
AfterDispatch(run, result, now) ==
    IF result = "Fatal" THEN fail(run, now)
    ELSE LET merged == [run EXCEPT !.context = MergeContext(@, Updates(result))]
             next == NextState(merged.current_state, merged.context)
         IN IF next = None THEN fail(merged, now)
            ELSE LET moved == transition_to(merged, next[1], now)
                 IN IF next[1] \in ExecTerminal THEN complete(moved, now) ELSE moved

\* Why the loop stopped after that iteration ("" when it goes on).
StopCause(run, result) ==
    IF result = "Fatal" THEN "fatal"
    ELSE LET next == NextState(run.current_state, MergeContext(run.context, Updates(result)))
         IN IF next = None THEN "no_transition"
            ELSE IF next[1] \in ExecTerminal THEN "terminal" ELSE ""

\* The record of a step of the Executor of the r-th run.
LoopStep(op, r) == [NoOp EXCEPT !.op = op, !.run = r]

\* A run is created and handed to its Executor once the Executors of the
\* earlier runs have stopped (one run occupies the process at a time).
NewLoop(workflow, outcome, later, fresh) ==
    /\ \A r \in 1..Len(runs) : exec[r].pc = "stopped"
    /\ New(workflow, outcome, later, fresh)

\* Start of an iteration of the Executor of the r-th run: the abort check. A
\* raised signal cancels the run and stops the loop; otherwise the action of
\* the current state is invoked.
ExecCheck(r) ==
    /\ r \in 1..Len(runs)
    /\ exec[r].pc = "check"
    /\ IF abort_file # None
       THEN /\ runs' = [runs EXCEPT ![r] = cancel(@, clock)]
            /\ exec' = [exec EXCEPT ![r].pc = "stopped", ![r].cause = "abort"]
            /\ pending' = pending \ {r}
       ELSE /\ exec' = [exec EXCEPT ![r].pc = "dispatch"]
            /\ UNCHANGED <<runs, pending>>
    /\ lastOp' = LoopStep("poll", r)
    /\ UNCHANGED <<abort_file, clock>>
    /\ UNCHANGED <<idVars, handlerVars, templateVars, callVars>>

\* The action invoked by the Executor of the r-th run raises the abort signal
\* while it executes.
ExecActionRaises(r, reason) ==
    /\ r \in 1..Len(runs)
    /\ exec[r].pc = "dispatch"
    /\ abort_file' = Some(reason)
    /\ pending' = pending \cup {r}
    /\ lastOp' = LoopStep("action_raise", r)
    /\ UNCHANGED <<runs, clock, exec>>
    /\ UNCHANGED <<idVars, handlerVars, templateVars, callVars>>

\* Action Dispatch returns `result` to the Executor of the r-th run, which
\* finishes the iteration.
ExecDispatch(r, result) ==
    /\ r \in 1..Len(runs)
    /\ exec[r].pc = "dispatch"
    /\ runs' = [runs EXCEPT ![r] = AfterDispatch(@, result, clock)]
    /\ exec' = [exec EXCEPT ![r].result = result,
                            ![r].clean = @ /\ result = "SuccessCompleted",
                            ![r].cause = StopCause(runs[r], result),
                            ![r].pc = IF StopCause(runs[r], result) = ""
                                      THEN "check" ELSE "stopped"]
    /\ lastOp' = LoopStep("dispatch", r)
    /\ UNCHANGED <<abort_file, clock, pending>>
    /\ UNCHANGED <<idVars, handlerVars, templateVars, callVars>>

NextLoop ==
    \/ Tick
    \/ ClockSetBack
    \/ \E reason \in AbortReasons : RaiseAbort(reason)
    \/ \E w \in Workflows, o \in {RmOk, RmNotFound, RmOtherErr}, later \in 0..MaxTime,
          fresh \in 0..MaxRand :
           NewLoop(w, o, later, fresh)
    \/ \E r \in 1..MaxRuns : ExecCheck(r)
    \/ \E r \in 1..MaxRuns, reason \in AbortReasons : ExecActionRaises(r, reason)
    \/ \E r \in 1..MaxRuns, result \in ActionResults : ExecDispatch(r, result)

SpecLoop == Init /\ [][NextLoop]_vars

\* ------------------------------------------------------------------ run identifiers
\* A call of WorkflowRunId::new(); `fresh` selects the random part the
\* generator draws.
WorkflowRunIdNew(fresh) ==
    /\ Len(ids) < MaxIds
    /\ ids' = Append(ids, WorkflowRunId_new(ulid_last, NowMillis, RandomPart(fresh)))
    /\ ulid_last' = Some(WorkflowRunId_new(ulid_last, NowMillis, RandomPart(fresh)))
    /\ UNCHANGED <<runs, abort_file, clock, pending, lastOp, exec, handlerVars, templateVars, callVars>>

NextIds ==
    \/ Tick
    \/ ClockSetBack
    \/ \E fresh \in 0..MaxRand : WorkflowRunIdNew(fresh)
    \/ \E w \in Workflows, o \in {RmOk, RmNotFound, RmOtherErr}, later \in 0..MaxTime,
          fresh \in 0..MaxRand :
           New(w, o, later, fresh)

SpecIds == Init /\ [][NextIds]_vars

\* ------------------------------------------------------------------ resource guards
\* issue_storage.read().await : granted while no write guard is out.
issue_storage_read(i) ==
    /\ store_writers = {}
    /\ store_readers' = store_readers \cup {i}
    /\ UNCHANGED store_writers

\* Variant of issue_storage_write: does not wait for the readers.
issue_storage_write_over_readers(i) ==
    /\ store_writers = {}
    /\ store_writers' = store_writers \cup {i}
    /\ UNCHANGED store_readers

\* Variant of issue_storage_write: does not wait for another writer.
issue_storage_write_over_writer(i) ==
    /\ store_readers = {}
    /\ store_writers' = store_writers \cup {i}
    /\ UNCHANGED store_readers

\* issue_storage.write().await : granted while no guard at all is out.
issue_storage_write(i) ==
    /\ store_readers = {}
    /\ store_writers = {}
    /\ store_writers' = store_writers \cup {i}
    /\ UNCHANGED store_readers

\* drop(issue_storage)
drop_issue_storage(i) ==
    /\ store_readers' = store_readers \ {i}
    /\ store_writers' = store_writers \ {i}

\* Variant of git_ops_lock: granted although the guard is out.
git_ops_lock_shared(i) ==
    git_holders' = git_holders \cup {i}

\* git_ops.lock().await : granted while the guard is not out.
git_ops_lock(i) ==
    /\ git_holders = {}
    /\ git_holders' = git_holders \cup {i}

\* Variant of drop_git_ops_guard: the guard of the clean check is kept.
drop_git_ops_guard_omitted(i) ==
    UNCHANGED git_holders

\* drop(git_ops_guard) between the clean check and the merge
drop_git_ops_guard(i) ==
    git_holders' = git_holders \ {i}

\* Variant of Return: the guard of git_ops stays with the returned invocation.
Return_keeps_git_ops(i, ret, vc) ==
    /\ inv' = [inv EXCEPT ![i].pc = "done", ![i].ret = ret, ![i].vc = @ \o vc]
    /\ drop_issue_storage(i)
    /\ UNCHANGED git_holders

\* The end of a handler, by `return`, by `?` or by its last expression: the
\* result goes to the caller and every guard still in scope is dropped. `vc`
\* are the version-control operations the closing step called.
Return(i, ret, vc) ==
    /\ inv' = [inv EXCEPT ![i].pc = "done", ![i].ret = ret, ![i].vc = @ \o vc]
    /\ drop_issue_storage(i)
    /\ git_holders' = git_holders \ {i}

\* What a merge leaves in its result besides the kind of response: the
\* target named in the success message, the branch the collaborator merged
\* into, the result of delete_branch if it was called and what the message
\* says of it, the error text of a failed merge, and whether the failure was
\* logged as irrecoverable.
NoDetail ==
    [target |-> "", merged_into |-> "", deleted |-> "", deletion |-> "", text |-> <<>>,
     logged |-> FALSE]

\* The end of a merge inside the version-control section, as Return, with
\* the detail of the result.
ReturnDetail(i, ret, vc, detail) ==
    /\ inv' = [inv EXCEPT ![i].pc = "done", ![i].ret = ret, ![i].vc = @ \o vc,
                          ![i].detail = detail]
    /\ drop_issue_storage(i)
    /\ git_holders' = git_holders \ {i}

\* The end of a merge by a panic of the handler: the task unwinds, the
\* caller gets no response, and the guards in scope are dropped on the way.
\* `vc` are the version-control operations called before the panic.
Panic(i, vc) ==
    ReturnDetail(i, "panic", vc, NoDetail)

\* The handler moves on to its next suspension point.
Goto(i, pc) == inv' = [inv EXCEPT ![i].pc = pc]

\* ------------------------------------------------------------------ commit information: the text
\* Strings are sequences of characters: an ASCII character of a field, a
\* character of two bytes in UTF-8, and the separator of the fields.
Chars == {"a", "é", "|"}
Strings == UNION {[1..n -> Chars] : n \in 0..MaxInfoLen}

\* char::len_utf8: the number of bytes of a character.
len_utf8(c) == IF c = "é" THEN 2 ELSE 1

\* str::len: the length of a string in bytes.
RECURSIVE len(_)
len(str) == IF str = <<>> THEN 0 ELSE len_utf8(Head(str)) + len(Tail(str))

\* str::is_char_boundary(index): the byte offset index is the start of a
\* character or the end of the string; an offset past the end is not.
is_char_boundary(str, index) ==
    \E k \in 0..Len(str) : len(SubSeq(str, 1, k)) = index

\* &str[..index]: the characters that fill the first index bytes.
slice_to(str, index) ==
    SubSeq(str, 1, CHOOSE k \in 0..Len(str) : len(SubSeq(str, 1, k)) = index)

\* The results of ops.get_last_commit_info(): None for Err, Some(info) for Ok.
CommitInfoResults == {None} \cup {Some(info) : info \in Strings}

\* Length of the commit hash shown: the 8 of &parts[0][..8].
HashLen == 8

\* str::split(sep): the parts between the separators, empty parts included;
\* a string without separator is its own single part.
RECURSIVE split(_, _)
split(str, sep) ==
    IF str = <<>> THEN << <<>> >>
    ELSE LET rest == split(Tail(str), sep)
         IN IF Head(str) = sep
            THEN << <<>> >> \o rest
            ELSE << <<Head(str)>> \o Head(rest) >> \o Tail(rest)

\* The suffix of the success message, or the panic that ends the call.
NoSuffix == [panic |-> FALSE, form |-> "empty", hash |-> <<>>, message |-> <<>>,
             author |-> <<>>, date |-> <<>>, info |-> <<>>]

\* The match on ops.get_last_commit_info() after a successful merge. The
\* slice &parts[0][..8] is taken by bytes: it panics when parts[0] is shorter
\* than 8 bytes or when byte 8 lies inside a character.
commit_info(result) ==
    IF result = None THEN NoSuffix
    ELSE LET info == result[1]
             parts == split(info, "|")
         IN IF Len(parts) >= 4
            THEN IF ~is_char_boundary(parts[1], HashLen)
                 THEN [NoSuffix EXCEPT !.panic = TRUE, !.form = "panic"]
                 ELSE [NoSuffix EXCEPT !.form = "Merge commit / Message / Author / Date",
                                       !.hash = slice_to(parts[1], HashLen),
                                       !.message = parts[2],
                                       !.author = parts[3],
                                       !.date = parts[4]]
            ELSE [NoSuffix EXCEPT !.form = "Merge commit", !.info = info]

\* What get_last_commit_info returns to a handler: Err, Ok of a line without
\* separators, of a line of four empty fields, of a line whose hash has eight
\* bytes, and of a line whose eighth byte lies inside a character.
LastCommitInfos ==
    { None,
      Some(<<"a">>),
      Some(<<"|", "|", "|">>),
      Some(<<"a", "a", "a", "a", "a", "a", "a", "a", "|", "|", "|">>),
      Some(<<"a", "a", "a", "a", "a", "a", "a", "é", "|", "|", "|">>) }

\* ------------------------------------------------------------------ tool handlers
\* The operations, in the order of the source.
ToolOpSeq ==
    << "handle_issue_create", "handle_issue_mark_complete", "handle_issue_all_complete",
       "handle_issue_update", "handle_issue_current", "handle_issue_work",
       "handle_issue_merge", "execute" >>

ToolOps == {ToolOpSeq[k] : k \in 1..Len(ToolOpSeq)}

OpRank(op) == CHOOSE k \in 1..Len(ToolOpSeq) : ToolOpSeq[k] = op

\* The contents concurrent updates write.
Payloads == {"payload A", "payload B"}

Request(content, valid, delete_branch) ==
    [content |-> content, valid |-> valid, delete_branch |-> delete_branch]

\* The requests of each operation: a create request with a valid or an
\* invalid name, an update request with its content, a merge request with
\* its delete_branch flag, and for MergeIssueTool::execute also arguments
\* that do not parse.
Requests(op) ==
    CASE op = "handle_issue_create" -> {Request("new issue", v, FALSE) : v \in BOOLEAN}
      [] op = "handle_issue_update" -> {Request(c, TRUE, FALSE) : c \in Payloads}
      [] op = "handle_issue_merge" -> {Request("", TRUE, d) : d \in BOOLEAN}
      [] op = "execute" -> {Request("", TRUE, d) : d \in BOOLEAN} \cup {Request("", FALSE, FALSE)}
      [] OTHER -> {Request("", TRUE, FALSE)}

\* A caller starts an invocation; it runs concurrently with the others.
\* Starting one has no effect until its first step, and the numbers of the
\* invocations carry no meaning, so they are numbered in the order of their
\* operations: every interleaving of the handlers' steps is still there.
Invoke(op, request) ==
    /\ Len(inv) < MaxInv
    /\ Len(inv) > 0 => OpRank(inv[Len(inv)].op) <= OpRank(op)
    /\ inv' = Append(inv, [op |-> op, request |-> request, pc |-> "start", ret |-> "",
                            vc |-> <<>>, detail |-> NoDetail])
    /\ UNCHANGED <<store_readers, store_writers, git_holders, issue, git_ops>>
    /\ UNCHANGED <<runs, abort_file, clock, pending, lastOp, exec, idVars, templateVars,
                 callVars>>

\* The invocation i of operation op is at position pc.
At(i, op, pc) == i \in 1..Len(inv) /\ inv[i].op = op /\ inv[i].pc = pc

\* What a handler step leaves alone besides the guards, the store and inv.
HandlerFrame ==
    UNCHANGED <<git_ops, runs, abort_file, clock, pending, lastOp, exec, idVars, templateVars,
                 callVars>>

\* The results a collaborator call can have.
CallOutcomes == {"Ok", "Err"}

\* Variant of validate_issue_name: every name passes.
validate_issue_name_accepts(request) == TRUE

\* validate_issue_name(request.name) and BaseToolImpl::parse_arguments
\* (arguments): whether the request is well-formed.
validate_issue_name(request) == request.valid
parse_arguments(request) == request.valid

\* Variant of issue_completed: the flag is not looked at.
issue_completed_unchecked(iss) == TRUE

\* issue.completed of the issue that get_issue / get_issue_info returned
issue_completed(iss) == iss.completed

\* Variant of is_some: a handle is assumed.
is_some_assumed(git) == TRUE

\* git_ops.as_ref() / as_mut() is Some(ops)
is_some(git) == git # None

\* The branches an issue branch can have been created from.
Branches == {"main", "release/2"}

\* The error texts of a failed merge, as the pieces they are made of.
MergeErrorTexts ==
    { <<"CONFLICT", "(content): Merge conflict in file">>,
      <<"Source branch", "does not exist">>,
      <<"connection", "timed out">> }

\* error_string.contains(marker)
contains(text, marker) == \E k \in 1..Len(text) : text[k] = marker

\* The markers MergeIssueTool::execute looks for in the text of a merge error.
IrrecoverableMarkers == {"does not exist", "deleted", "CONFLICT", "Automatic merge failed"}

IsIrrecoverable(text) == \E marker \in IrrecoverableMarkers : contains(text, marker)

\* What the success message says of the deletion of the source branch, del
\* being the result of delete_branch.
Deletion(request, del) ==
    IF ~request.delete_branch THEN ""
    ELSE IF del = "Ok" THEN "and deleted branch"
    ELSE "but failed to delete branch"

\* Variant of MergeCalls: the branch is deleted whatever the request says.
MergeCalls_always_deletes(merge, request) ==
    <<merge, "get_last_commit_info", "delete_branch">>

\* The version-control operations of a successful merge: the merge, the
\* commit information and, when asked for, the deletion of the branch.
MergeCalls(merge, request) ==
    <<merge, "get_last_commit_info">>
        \o (IF request.delete_branch THEN <<"delete_branch">> ELSE <<>>)

\* ToolHandlers::handle_issue_create; outcome is the result of create_issue.
handle_issue_create(i, outcome) ==
    /\ HandlerFrame
    /\ \/ /\ At(i, "handle_issue_create", "start")
          /\ ~validate_issue_name(inv[i].request)
          /\ Return(i, "Err: invalid issue name", <<>>)
          /\ UNCHANGED issue
       \/ /\ At(i, "handle_issue_create", "start")
          /\ validate_issue_name(inv[i].request)
          /\ issue_storage_write(i)
          /\ Goto(i, "store")
          /\ UNCHANGED <<git_holders, issue>>
       \/ /\ At(i, "handle_issue_create", "store")
          /\ issue' = IF outcome = "Ok" THEN [issue EXCEPT !.count = @ + 1] ELSE issue
          /\ Return(i, CASE outcome = "Ok" -> "issue response"
                         [] outcome = "IssueAlreadyExists" -> "Err: already exists"
                         [] OTHER -> "Err: Failed to create issue", <<>>)

\* ToolHandlers::handle_issue_mark_complete; outcome is the result of
\* mark_complete.
handle_issue_mark_complete(i, outcome) ==
    /\ HandlerFrame
    /\ \/ /\ At(i, "handle_issue_mark_complete", "start")
          /\ issue_storage_write(i)
          /\ Goto(i, "store")
          /\ UNCHANGED <<git_holders, issue>>
       \/ /\ At(i, "handle_issue_mark_complete", "store")
          /\ issue' = IF outcome = "Ok" THEN [issue EXCEPT !.completed = TRUE] ELSE issue
          /\ Return(i, CASE outcome = "Ok" -> "mark complete response"
                         [] outcome = "IssueNotFound" -> "Err: not found"
                         [] OTHER -> "Err: Failed to mark issue complete", <<>>)

\* ToolHandlers::handle_issue_all_complete; outcome is the result of
\* list_issues.
handle_issue_all_complete(i, outcome) ==
    /\ HandlerFrame
    /\ UNCHANGED issue
    /\ \/ /\ At(i, "handle_issue_all_complete", "start")
          /\ issue_storage_read(i)
          /\ Goto(i, "store")
          /\ UNCHANGED git_holders
       \/ /\ At(i, "handle_issue_all_complete", "store")
          /\ Return(i, IF outcome = "Ok" THEN "all complete response"
                       ELSE "Err: Failed to check issues", <<>>)

\* IssueStorage::update_issue puts the new content down in two halves, the
\* call suspended in between.
update_issue_first(iss, content) == [iss EXCEPT !.content[1] = content]
update_issue_second(iss, content) == [iss EXCEPT !.content[2] = content]

\* ToolHandlers::handle_issue_update; outcome is the result of update_issue.
handle_issue_update(i, outcome) ==
    /\ HandlerFrame
    /\ \/ /\ At(i, "handle_issue_update", "start")
          /\ issue_storage_write(i)
          /\ Goto(i, "store")
          /\ UNCHANGED <<git_holders, issue>>
       \/ /\ At(i, "handle_issue_update", "store")
          /\ outcome = "Ok"
          /\ issue' = update_issue_first(issue, inv[i].request.content)
          /\ Goto(i, "store2")
          /\ UNCHANGED <<store_readers, store_writers, git_holders>>
       \/ /\ At(i, "handle_issue_update", "store")
          /\ outcome # "Ok"
          /\ Return(i, "error: Failed to update issue", <<>>)
          /\ UNCHANGED issue
       \/ /\ At(i, "handle_issue_update", "store2")
          /\ issue' = update_issue_second(issue, inv[i].request.content)
          /\ Return(i, "success: Updated issue", <<>>)

\* ToolHandlers::handle_issue_current; outcome is the result of
\* current_branch.
handle_issue_current(i, outcome) ==
    /\ HandlerFrame
    /\ UNCHANGED issue
    /\ \/ /\ At(i, "handle_issue_current", "start")
          /\ git_ops_lock(i)
          /\ Goto(i, "git")
          /\ UNCHANGED <<store_readers, store_writers>>
       \/ /\ At(i, "handle_issue_current", "git")
          /\ IF ~is_some(git_ops)
             THEN Return(i, "error: Git operations not available", <<>>)
             ELSE Return(i, IF outcome = "Ok" THEN "success: current branch"
                            ELSE "error: Failed to get current branch",
                         <<"current_branch">>)

\* ToolHandlers::handle_issue_work; outcome is the result of get_issue, then
\* of create_work_branch.
handle_issue_work(i, outcome) ==
    /\ HandlerFrame
    /\ UNCHANGED issue
    /\ \/ /\ At(i, "handle_issue_work", "start")
          /\ issue_storage_read(i)
          /\ Goto(i, "store")
          /\ UNCHANGED git_holders
       \/ /\ At(i, "handle_issue_work", "store")
          /\ IF outcome = "Ok"
             THEN /\ drop_issue_storage(i)
                  /\ Goto(i, "git_wait")
                  /\ UNCHANGED git_holders
             ELSE Return(i, "error: Failed to get issue", <<>>)
       \/ /\ At(i, "handle_issue_work", "git_wait")
          /\ git_ops_lock(i)
          /\ Goto(i, "git")
          /\ UNCHANGED <<store_readers, store_writers>>
       \/ /\ At(i, "handle_issue_work", "git")
          /\ IF ~is_some(git_ops)
             THEN Return(i, "error: Git operations not available", <<>>)
             ELSE Return(i, IF outcome = "Ok" THEN "success: Switched to work branch"
                            ELSE "error: Failed to create work branch",
                         <<"create_work_branch">>)

\* ToolHandlers::handle_issue_merge; outcome is the result of get_issue, then
\* of check_working_directory_clean, then of merge_issue_branch. After a
\* merge `info` is the result of get_last_commit_info: the slice of its hash
\* may panic, before delete_branch is called and before anything is returned.
handle_issue_merge(i, outcome) ==
    /\ HandlerFrame
    /\ UNCHANGED issue
    /\ \/ /\ At(i, "handle_issue_merge", "start")
          /\ issue_storage_read(i)
          /\ Goto(i, "store")
          /\ UNCHANGED git_holders
       \/ /\ At(i, "handle_issue_merge", "store")
          /\ IF outcome # "Ok"
             THEN Return(i, "error: Failed to get issue", <<>>)
             ELSE IF ~issue_completed(issue)
             THEN Return(i, "error: Issue is not completed", <<>>)
             ELSE /\ drop_issue_storage(i)
                  /\ Goto(i, "git_wait")
                  /\ UNCHANGED git_holders
       \/ /\ At(i, "handle_issue_merge", "git_wait")
          /\ git_ops_lock(i)
          /\ Goto(i, "git")
          /\ UNCHANGED <<store_readers, store_writers>>
       \/ /\ At(i, "handle_issue_merge", "git")
          /\ IF is_some(git_ops) /\ outcome # "Ok"
             THEN Return(i, "error: Working directory is not clean", <<"git status">>)
             ELSE /\ drop_git_ops_guard(i)
                  /\ inv' = [inv EXCEPT ![i].pc = "git_wait2",
                                        ![i].vc = IF is_some(git_ops) THEN @ \o <<"git status">> ELSE @]
                  /\ UNCHANGED <<store_readers, store_writers>>
       \/ /\ At(i, "handle_issue_merge", "git_wait2")
          /\ git_ops_lock(i)
          /\ Goto(i, "git2")
          /\ UNCHANGED <<store_readers, store_writers>>
       \/ /\ At(i, "handle_issue_merge", "git2")
          /\ IF ~is_some(git_ops)
             THEN Return(i, "error: Git operations not available", <<>>)
             ELSE IF outcome = "Ok"
             THEN \E parent \in Branches, info \in LastCommitInfos, del \in CallOutcomes :
                      IF commit_info(info).panic
                      THEN Panic(i, <<"merge_issue_branch", "get_last_commit_info">>)
                      ELSE ReturnDetail(i, "success: Merged work branch",
                                   MergeCalls("merge_issue_branch", inv[i].request),
                                   [NoDetail EXCEPT !.target = "main",
                                                    !.merged_into = parent,
                                                    !.deleted = IF inv[i].request.delete_branch
                                                                THEN del ELSE "",
                                                    !.deletion = Deletion(inv[i].request, del)])
             ELSE \E text \in MergeErrorTexts :
                      ReturnDetail(i, "error: Failed to merge branch", <<"merge_issue_branch">>,
                                   [NoDetail EXCEPT !.text = text])

\* MergeIssueTool::execute; outcome is the result of get_issue_info, then of
\* merge_issue_branch_auto. The read guard taken for get_issue_info is a
\* local of the whole function body: nothing drops it before the return.
\* After a merge `info` is the result of get_last_commit_info: the slice of
\* its hash may panic, before delete_branch is called.
execute(i, outcome) ==
    /\ HandlerFrame
    /\ UNCHANGED issue
    /\ \/ /\ At(i, "execute", "start")
          /\ ~parse_arguments(inv[i].request)
          /\ Return(i, "Err: invalid arguments", <<>>)
       \/ /\ At(i, "execute", "start")
          /\ parse_arguments(inv[i].request)
          /\ issue_storage_read(i)
          /\ Goto(i, "store")
          /\ UNCHANGED git_holders
       \/ /\ At(i, "execute", "store")
          /\ IF outcome # "Ok"
             THEN Return(i, "Err: get issue for merge", <<>>)
             ELSE IF ~issue_completed(issue)
             THEN Return(i, "error: Issue must be completed before merging", <<>>)
             ELSE /\ Goto(i, "git_wait")
                  /\ UNCHANGED <<store_readers, store_writers, git_holders>>
       \/ /\ At(i, "execute", "git_wait")
          /\ git_ops_lock(i)
          /\ Goto(i, "git")
          /\ UNCHANGED <<store_readers, store_writers>>
       \/ /\ At(i, "execute", "git")
          /\ IF ~is_some(git_ops)
             THEN Return(i, "error: Git operations not available", <<>>)
             ELSE IF outcome = "Ok"
             THEN \E parent \in Branches, find \in CallOutcomes, info \in LastCommitInfos,
                         del \in CallOutcomes :
                      IF commit_info(info).panic
                      THEN Panic(i, <<"merge_issue_branch_auto", "find_merge_target_branch",
                                      "get_last_commit_info">>)
                      ELSE ReturnDetail(i, "success: Merged work branch",
                                   <<"merge_issue_branch_auto", "find_merge_target_branch">>
                                       \o Tail(MergeCalls("merge_issue_branch_auto", inv[i].request)),
                                   [NoDetail EXCEPT !.target = IF find = "Ok" THEN parent ELSE "main",
                                                    !.merged_into = parent,
                                                    !.deleted = IF inv[i].request.delete_branch
                                                                THEN del ELSE "",
                                                    !.deletion = Deletion(inv[i].request, del)])
             ELSE \E text \in MergeErrorTexts :
                      ReturnDetail(i, "Err: merge issue branch", <<"merge_issue_branch_auto">>,
                                   [NoDetail EXCEPT !.text = text,
                                                    !.logged = IsIrrecoverable(text)])

\* The results the store's create_issue and mark_complete can have.
CreateOutcomes == {"Ok", "IssueAlreadyExists", "Err"}
MarkCompleteOutcomes == {"Ok", "IssueNotFound", "Err"}

\* One step of the invocation i, whichever handler it runs.
HandlerStep(i) ==
    \/ \E outcome \in CreateOutcomes : handle_issue_create(i, outcome)
    \/ \E outcome \in MarkCompleteOutcomes : handle_issue_mark_complete(i, outcome)
    \/ \E outcome \in CallOutcomes : handle_issue_all_complete(i, outcome)
    \/ \E outcome \in CallOutcomes : handle_issue_update(i, outcome)
    \/ \E outcome \in CallOutcomes : handle_issue_current(i, outcome)
    \/ \E outcome \in CallOutcomes : handle_issue_work(i, outcome)
    \/ \E outcome \in CallOutcomes : handle_issue_merge(i, outcome)
    \/ \E outcome \in CallOutcomes : execute(i, outcome)

NextHandlers ==
    \/ \E op \in ToolOps : \E request \in Requests(op) : Invoke(op, request)
    \/ \E i \in 1..MaxInv : HandlerStep(i)

SpecHandlers == InitHandlers /\ [][NextHandlers]_vars

\* The scheduler is fair: while some invocation can take a step, one is
\* taken (every fair scheduling of the single invocations is such a
\* behaviour). Collaborator calls terminate: each is one step.
SpecHandlersFair ==
    SpecHandlers /\ WF_vars(\E i \in 1..MaxInv : HandlerStep(i))

\* The invocation i holds a guard of issue_storage, of git_ops.
HoldsStore(i) == i \in store_readers \cup store_writers
HoldsGit(i) == i \in git_holders

\* The invocations that have not returned.
Unfinished == {i \in 1..Len(inv) : inv[i].pc # "done"}

\* The invocation i waits for a guard it cannot have now.
Blocked(i) == i \in Unfinished /\ ~ENABLED HandlerStep(i)

\* ------------------------------------------------------------------ templates
\* The variable names of the templates, and the value each source of
\* variables gives.
VarNames == {"name", "TEST_VAR"}
ArgValue == "arg_value"
EnvValue == "env_value"
ConfigValue == "config_value"

\* A template text is kept as the sequence of its pieces:
\*   text      arg                          literal text
\*   output    {{ var }}
\*   default   {{ var | default: 'arg' }}
\*   append    {{ var | append: arg }}      arg is a variable
\*   if        {% if var %}arg{% endif %}
\*   include   {% include 'arg' %}
\*   huge      literal text above the size limit of trusted templates
\*   unclosed  {{ var                       malformed
Seg(kind, var, arg) == [kind |-> kind, var |-> var, arg |-> arg]

TemplateSources ==
    { << Seg("text", "", "Hello "), Seg("output", "name", ""), Seg("text", "", "!") >>,
      << Seg("text", "", "Hello "), Seg("default", "name", "World"), Seg("text", "", "!") >>,
      << Seg("text", "", "Project: "), Seg("output", "name", ""),
         Seg("text", "", ", Env: "), Seg("output", "TEST_VAR", "") >>,
      << Seg("append", "name", "TEST_VAR") >>,
      << Seg("if", "name", "Premium user") >>,
      << Seg("include", "", "secret") >>,
      << Seg("huge", "", "...") >>,
      << Seg("unclosed", "name", "") >> }

\* security::validate_template_security: dangerous tags are blocked in
\* untrusted templates, the size limit holds for trusted ones too.
DangerousTags == {"include", "capture", "tablerow", "cycle"}

validate_template_security(src, trusted) ==
    /\ \A k \in 1..Len(src) : src[k].kind # "huge"
    /\ trusted \/ \A k \in 1..Len(src) : src[k].kind \notin DangerousTags

\* parser.parse(template_str) is Ok
parse_ok(src) == \A k \in 1..Len(src) : src[k].kind # "unclosed"

\* A Template value: its text and parser, and whether
\* validate_template_security was passed on the way to it.
TemplateValue(src, parser, validated) ==
    [template_str |-> src, parser |-> parser, validated |-> validated]

\* Template::new_untrusted; None stands for the Err results.
Template_new_untrusted(src) ==
    IF ~validate_template_security(src, FALSE) THEN None
    ELSE IF ~parse_ok(src) THEN None
    ELSE Some(TemplateValue(src, "default", TRUE))

\* Template::new
Template_new(src) == Template_new_untrusted(src)

\* Template::new_trusted
Template_new_trusted(src) ==
    IF ~validate_template_security(src, TRUE) THEN None
    ELSE IF ~parse_ok(src) THEN None
    ELSE Some(TemplateValue(src, "default", TRUE))

\* Template::with_partials
Template_with_partials(src) ==
    IF ~parse_ok(src) THEN None
    ELSE Some(TemplateValue(src, "partials", FALSE))

\* TemplateEngine::parse, of an engine made by TemplateEngine::new
TemplateEngine_parse(src) ==
    IF ~parse_ok(src) THEN None
    ELSE Some(TemplateValue(src, "default", FALSE))

Constructors ==
    {"Template::new", "Template::new_trusted", "Template::new_untrusted",
     "Template::with_partials", "TemplateEngine::parse"}

Constructed(ctor, src) ==
    CASE ctor = "Template::new" -> Template_new(src)
      [] ctor = "Template::new_trusted" -> Template_new_trusted(src)
      [] ctor = "Template::new_untrusted" -> Template_new_untrusted(src)
      [] ctor = "Template::with_partials" -> Template_with_partials(src)
      [] OTHER -> TemplateEngine_parse(src)

\* extract_template_variables: the name at the head of each {{ .. }} and the
\* first name after if / unless / for .. in, as the two regular expressions
\* capture them.
extract_template_variables(src) ==
    {src[k].var : k \in {j \in 1..Len(src) : src[j].kind \in {"output", "default", "append", "if"}}}

\* object.insert(key, value) for every entry: a later insert replaces an
\* earlier one of the same key.
Insert(object, entries) ==
    [k \in DOMAIN object \cup DOMAIN entries |->
        IF k \in DOMAIN entries THEN entries[k] ELSE object[k]]

\* liquid::model::Value::Nil for each name, Value::scalar for each entry.
Nils(names) == [k \in names |-> None]
Scalars(map) == [k \in DOMAIN map |-> Some(map[k])]

\* The rendering of the template by liquid, as the pieces of the output. A
\* name that the object does not hold is an error; Nil renders as nothing.
Rendered(text) == [ok |-> TRUE, text |-> text]
UnknownVariable(var) == [ok |-> FALSE, text |-> <<"Unknown variable", var>>]

RenderSeg(seg, object) ==
    CASE seg.kind = "text" -> Rendered(<<seg.arg>>)
      [] seg.kind = "output" ->
            IF seg.var \in DOMAIN object THEN Rendered(object[seg.var])
            ELSE UnknownVariable(seg.var)
      [] seg.kind = "default" ->
            IF seg.var \notin DOMAIN object THEN UnknownVariable(seg.var)
            ELSE IF object[seg.var] \in {None, Some("")} THEN Rendered(<<seg.arg>>)
            ELSE Rendered(object[seg.var])
      [] seg.kind = "append" ->
            IF seg.var \notin DOMAIN object THEN UnknownVariable(seg.var)
            ELSE IF seg.arg \notin DOMAIN object THEN UnknownVariable(seg.arg)
            ELSE Rendered(object[seg.var] \o object[seg.arg])
      [] seg.kind = "if" ->
            IF seg.var \in DOMAIN object /\ object[seg.var] # None
            THEN Rendered(<<seg.arg>>)
            ELSE Rendered(<<>>)
      [] seg.kind = "huge" -> Rendered(<<seg.arg>>)
      [] OTHER -> [ok |-> FALSE, text |-> <<"Partial does not exist", seg.arg>>]

RECURSIVE liquid_render(_, _)
liquid_render(src, object) ==
    IF src = <<>> THEN Rendered(<<>>)
    ELSE LET first == RenderSeg(Head(src), object)
             rest == liquid_render(Tail(src), object)
         IN IF ~first.ok THEN first
            ELSE IF ~rest.ok THEN rest
            ELSE Rendered(first.text \o rest.text)

\* Template::render_with_timeout (and Template::render, which calls it)
render_with_timeout(template, args) ==
    liquid_render(template.template_str,
                  Insert(Nils(extract_template_variables(template.template_str)),
                         Scalars(args)))

\* Template::render_with_env
render_with_env(template, args, environment) ==
    liquid_render(template.template_str,
                  Insert(Insert(Nils(extract_template_variables(template.template_str)),
                                Scalars(environment)),
                         Scalars(args)))

\* Variant of render_with_config: the configuration is merged after the
\* environment.
render_with_config_config_last(template, args, environment, configuration) ==
    liquid_render(template.template_str,
                  Insert(Insert(Insert(Nils(extract_template_variables(template.template_str)),
                                       Scalars(environment)),
                                IF configuration = None THEN EmptyMap
                                ELSE Scalars(configuration[1])),
                         Scalars(args)))

\* Template::render_with_config; configuration is what
\* sah_config::load_repo_config found, None for no configuration.
render_with_config(template, args, environment, configuration) ==
    liquid_render(template.template_str,
                  Insert(Insert(Insert(Nils(extract_template_variables(template.template_str)),
                                       IF configuration = None THEN EmptyMap
                                       ELSE Scalars(configuration[1])),
                                Scalars(environment)),
                         Scalars(args)))

\* The maps from some of the names to one value.
MapsTo(value) == UNION {[names -> {value}] : names \in SUBSET VarNames}

RenderMethods == {"render", "render_with_env", "render_with_config"}

\* A constructor is called on a template text.
Construct(ctor, src) ==
    /\ tpl' = Constructed(ctor, src)
    /\ out' = None
    /\ UNCHANGED <<env, config>>
    /\ UNCHANGED <<runs, abort_file, clock, pending, lastOp, exec, idVars, handlerVars, callVars>>

\* std::env::set_var(name, value)
SetVar(var) ==
    /\ env' = Insert(env, [k \in {var} |-> EnvValue])
    /\ UNCHANGED <<tpl, config, out>>
    /\ UNCHANGED <<runs, abort_file, clock, pending, lastOp, exec, idVars, handlerVars, callVars>>

\* std::env::remove_var(name)
RemoveVar(var) ==
    /\ var \in DOMAIN env
    /\ env' = [k \in DOMAIN env \ {var} |-> env[k]]
    /\ UNCHANGED <<tpl, config, out>>
    /\ UNCHANGED <<runs, abort_file, clock, pending, lastOp, exec, idVars, handlerVars, callVars>>

\* sah.toml is written, or removed.
WriteConfig(configuration) ==
    /\ config' = configuration
    /\ UNCHANGED <<tpl, env, out>>
    /\ UNCHANGED <<runs, abort_file, clock, pending, lastOp, exec, idVars, handlerVars, callVars>>

\* A render method is called on the template.
Render(method, args) ==
    /\ tpl # None
    /\ out' = [method |-> method, args |-> args,
               result |-> CASE method = "render" -> render_with_timeout(tpl[1], args)
                            [] method = "render_with_env" -> render_with_env(tpl[1], args, env)
                            [] OTHER -> render_with_config(tpl[1], args, env, config)]
    /\ UNCHANGED <<tpl, env, config>>
    /\ UNCHANGED <<runs, abort_file, clock, pending, lastOp, exec, idVars, handlerVars, callVars>>

NextTemplates ==
    \/ \E ctor \in Constructors, src \in TemplateSources : Construct(ctor, src)
    \/ \E var \in VarNames : SetVar(var)
    \/ \E var \in VarNames : RemoveVar(var)
    \/ \E configuration \in {None} \cup {Some(c) : c \in MapsTo(ConfigValue)} : WriteConfig(configuration)
    \/ \E method \in RenderMethods, args \in MapsTo(ArgValue) : Render(method, args)

SpecTemplates == Init /\ [][NextTemplates]_vars

\* ------------------------------------------------------------------ commit information of a merge
\* A merge has succeeded and get_last_commit_info has returned; nothing is
\* built from the result yet.
InitCommitInfo ==
    /\ \E result \in CommitInfoResults : commit = Some([result |-> result, built |-> None])
    /\ runs = <<>>
    /\ abort_file = None
    /\ clock = 0
    /\ pending = {}
    /\ lastOp = NoOp
    /\ exec = [r \in 1..MaxRuns |-> ExecStart]
    /\ ids = <<>>
    /\ ulid_last = None
    /\ tpl = None
    /\ env = EmptyMap
    /\ config = None
    /\ out = None
    /\ cli = None
    /\ partials = None
    /\ ToolHandlers_new(TRUE, Some("repo"))

\* The handler builds the commit information of its success message.
BuildCommitInfo ==
    /\ commit # None
    /\ commit[1].built = None
    /\ commit' = Some([commit[1] EXCEPT !.built = Some(commit_info(commit[1].result))])
    /\ UNCHANGED <<cli, partials>>
    /\ UNCHANGED <<runs, abort_file, clock, pending, lastOp, exec, idVars, handlerVars,
                 templateVars>>

NextCommitInfo == BuildCommitInfo

SpecCommitInfo == InitCommitInfo /\ [][NextCommitInfo]_vars

\* ------------------------------------------------------------------ prompt command
\* PromptSubcommand: List, Search, and Test with the fields of its TestConfig
\* that select what is run.
PromptSubcommands ==
    [kind : {"List", "Search"}, prompt_name : {None}, file : {None},
     raw : {FALSE}, copy : {FALSE}, debug : {FALSE}]
    \cup
    [kind : {"Test"}, prompt_name : {None, Some("non_existent_prompt_12345")},
     file : {None, Some("prompt.md")}, raw : BOOLEAN, copy : BOOLEAN, debug : BOOLEAN]

\* An error as the command sees it: its type, its variants, the reason of an
\* abort, and its Display text.
Error(type, variant, inner, reason, text) ==
    [type |-> type, variant |-> variant, inner |-> inner, reason |-> reason, text |-> text]

NoError == Error("", "", "", "", <<>>)

\* An abort reason is free text and may be empty.
Reasons == AbortReasons \cup {""}

CommandErrors ==
    {Error("SwissArmyHammerError", "ExecutorError", "Abort", reason,
           <<"Executor error: ", "Workflow aborted: ", reason>>) : reason \in Reasons}
    \cup
    {Error("SwissArmyHammerError", "ExecutorError", "ActionFailed", "",
           <<"Executor error: ", "Action failed">>),
     Error("SwissArmyHammerError", "PromptNotFound", "", "",
           <<"Prompt not found: ", "non_existent_prompt_12345">>),
     Error("std::io::Error", "", "", "", <<"No such file or directory">>)}

\* What the function behind a subcommand returns: Ok or Err(e).
CommandResults ==
    {[ok |-> TRUE, error |-> NoError]} \cup {[ok |-> FALSE, error |-> e] : e \in CommandErrors}

\* CliResult<()>: Ok(()), or Err(CliError::new(message, exit_code)).
CliOk == [ok |-> TRUE, message |-> <<>>, exit_code |-> ""]
CliError_new(message, exit_code) == [ok |-> FALSE, message |-> message, exit_code |-> exit_code]

\* e.to_string()
to_string_error(e) == e.text

\* Variant of abort_aware: an abort is reported like any other error.
abort_aware_plain(e) == CliError_new(to_string_error(e), "1")

\* The closure given to map_err in the Test arm.
abort_aware(e) ==
    IF e.type = "SwissArmyHammerError" /\ e.variant = "ExecutorError" /\ e.inner = "Abort"
    THEN CliError_new(<<"Prompt execution aborted: ", e.reason>>, "EXIT_ERROR")
    ELSE CliError_new(to_string_error(e), "1")

\* run_prompt_command; returned is what list::run_list_command,
\* runner.run(config) or search::run_search_command returned.
run_prompt_command(subcommand, returned) ==
    IF returned.ok THEN CliOk
    ELSE IF subcommand.kind = "Test" THEN abort_aware(returned.error)
    ELSE CliError_new(to_string_error(returned.error), "1")

\* A call of run_prompt_command(subcommand).
RunPromptCommand(subcommand, returned) ==
    /\ cli' = Some([subcommand |-> subcommand, returned |-> returned,
                    result |-> run_prompt_command(subcommand, returned)])
    /\ UNCHANGED <<commit, partials>>
    /\ UNCHANGED <<runs, abort_file, clock, pending, lastOp, exec, idVars, handlerVars,
                 templateVars>>

NextPrompt ==
    \E subcommand \in PromptSubcommands, returned \in CommandResults :
        RunPromptCommand(subcommand, returned)

SpecPrompt == Init /\ [][NextPrompt]_vars

\* ------------------------------------------------------------------ partial source
\* A prompt name is kept as its pieces: a stem without '.', followed by
\* pieces that each start with '.'. Joining the pieces gives the string.
Stems == {"principals"}
Pieces == {".md", ".markdown", ".liquid", ".txt"}
PromptNames ==
    {<<stem>> : stem \in Stems}
    \cup {<<stem, a>> : stem \in Stems, a \in Pieces}
    \cup {<<stem, a, b>> : stem \in Stems, a \in Pieces, b \in Pieces}

\* let extensions = [".md", ".markdown", ".liquid", ".md.liquid"]
extensions == << <<".md">>, <<".markdown">>, <<".liquid">>, <<".md", ".liquid">> >>

\* The libraries of at most n prompts; a prompt is known by its name.
RECURSIVE LibrariesUpTo(_)
LibrariesUpTo(n) ==
    IF n = 0 THEN {{}}
    ELSE LET smaller == LibrariesUpTo(n - 1)
         IN smaller \cup {lib \cup {name} : lib \in smaller, name \in PromptNames}

Libraries == LibrariesUpTo(MaxPrompts)

\* prompt.template of the prompt of that name: each prompt has its own text.
TemplateOf(name) == <<"template of">> \o name

\* self.library.get(name): Some(prompt.template) for Ok(prompt), None for Err.
library_get(lib, name) == IF name \in lib THEN Some(TemplateOf(name)) ELSE None

\* str::strip_suffix(ext): Some(rest) when the string ends with ext.
strip_suffix(name, ext) ==
    IF Len(name) >= Len(ext) /\ SubSeq(name, Len(name) - Len(ext) + 1, Len(name)) = ext
    THEN Some(SubSeq(name, 1, Len(name) - Len(ext)))
    ELSE None

\* name.contains('.')
contains_dot(name) == Len(name) > 1

\* The names tried for one stripped extension: the stripped name, then the
\* stripped name with each other extension.
StrippedCandidates(name, k) ==
    LET stripped == strip_suffix(name, extensions[k])
    IN IF stripped = None THEN <<>>
       ELSE <<stripped[1]>>
            \o [j \in 1..(Len(extensions) - 1) |->
                   stripped[1] \o extensions[IF j < k THEN j ELSE j + 1]]

RECURSIVE StrippedFrom(_, _)
StrippedFrom(name, k) ==
    IF k > Len(extensions) THEN <<>>
    ELSE StrippedCandidates(name, k) \o StrippedFrom(name, k + 1)

\* The names contains and try_get try, in their order: the exact name, the
\* name with each extension, and for a name with a '.' the stripped names.
Candidates(name) ==
    <<name>>
    \o [k \in 1..Len(extensions) |-> name \o extensions[k]]
    \o (IF contains_dot(name) THEN StrippedFrom(name, 1) ELSE <<>>)

\* Variant of PartialSource_contains: the stripped names are not tried.
PartialSource_contains_no_strip(lib, name) ==
    LET tried == Candidates(name)
    IN \E k \in 1..(1 + Len(extensions)) : library_get(lib, tried[k]) # None

\* PromptPartialSource::contains
PartialSource_contains(lib, name) ==
    LET tried == Candidates(name)
    IN \E k \in 1..Len(tried) : library_get(lib, tried[k]) # None

\* The first of the names that the library holds.
RECURSIVE FirstFound(_, _)
FirstFound(lib, names) ==
    IF names = <<>> THEN None
    ELSE IF library_get(lib, Head(names)) # None THEN library_get(lib, Head(names))
    ELSE FirstFound(lib, Tail(names))

\* PromptPartialSource::try_get
try_get(lib, name) == FirstFound(lib, Candidates(name))

\* The names a prompt name gives by stripping one extension.
Stripped(name) ==
    {strip_suffix(name, extensions[k])[1] :
        k \in {j \in 1..Len(extensions) : strip_suffix(name, extensions[j]) # None}}

\* Variant of PromptPartialSource_new: the last piece is stripped whatever it is.
PromptPartialSource_new_strips_any(lib, list) ==
    IF list # "Ok" THEN {}
    ELSE lib \cup UNION {Stripped(name) : name \in lib}
             \cup {SubSeq(name, 1, Len(name) - 1) : name \in {n \in lib : Len(n) > 1}}

\* PromptPartialSource::new: the names field; list is the outcome of
\* library.list(). The names are kept as a set: their order is that of
\* library.list(), and a name may be pushed more than once.
PromptPartialSource_new(lib, list) ==
    IF list # "Ok" THEN {}
    ELSE lib \cup UNION {Stripped(name) : name \in lib}

\* liquid's EagerCompiler compiles the templates of names() when the parser
\* is built; a partial is then looked up by its name among those.
EagerStore_get(lib, names, name) ==
    IF name \in names THEN try_get(lib, name) ELSE None

\* A source is built over a library, for the parser of a template.
NewPartialSource(lib, list) ==
    /\ partials = None
    /\ partials' = Some([library |-> lib, listed |-> (list = "Ok"),
                         names |-> PromptPartialSource_new(lib, list),
                         lookup |-> None])
    /\ UNCHANGED <<commit, cli>>
    /\ UNCHANGED <<runs, abort_file, clock, pending, lastOp, exec, idVars, handlerVars,
                 templateVars>>

\* A partial is looked up by name: what contains and try_get answer, and
\* what a template that renders the partial gets from the compiled store.
\* A lookup leaves the source as it is, so a behaviour records one.
LookupPartial(name) ==
    /\ partials # None
    /\ partials[1].lookup = None
    /\ partials' = Some([partials[1] EXCEPT !.lookup =
           Some([name |-> name,
                 contains |-> PartialSource_contains(partials[1].library, name),
                 try_get |-> try_get(partials[1].library, name),
                 rendered |-> EagerStore_get(partials[1].library, partials[1].names, name)])])
    /\ UNCHANGED <<commit, cli>>
    /\ UNCHANGED <<runs, abort_file, clock, pending, lastOp, exec, idVars, handlerVars,
                 templateVars>>

NextPartials ==
    \/ \E lib \in Libraries, list \in CallOutcomes : NewPartialSource(lib, list)
    \/ \E name \in PromptNames : LookupPartial(name)

SpecPartials == Init /\ [][NextPartials]_vars

\* ------------------------------------------------------------------ helpers of the properties
\* The runs created so far.
RunIds == 1..Len(runs)

\* The states of a history, in order.
HistStates(h) == [i \in 1..Len(h) |-> h[i][1]]

\* The step is a call of `op` on run r (the call record changed, or the run did).
IsCall(op, r) ==
    /\ lastOp'.op = op
    /\ lastOp'.run = r
    /\ (lastOp' # lastOp \/ runs' # runs)

\* ------------------------------------------------------------------ C1
\* C1: in every state reached by new, transition_to, complete and fail, each
\* run's history is non-empty, its first entry's state is the workflow's
\* initial state and its last entry's state is current_state.
C1_HistoryShape ==
    \A r \in RunIds :
        LET run == runs[r] IN
        /\ Len(run.history) >= 1
        /\ run.history[1][1] = run.workflow.initial_state
        /\ run.history[Len(run.history)][1] = run.current_state

\* A run that made two transitions, left its initial state and was failed.
C1_Witness ==
    \E r \in RunIds :
        /\ Len(runs[r].history) = 3
        /\ runs[r].current_state # runs[r].workflow.initial_state
        /\ runs[r].status = Failed

\* ------------------------------------------------------------------ C2
\* C2: completed_at is Some if and only if status is not Running.
C2_CompletedAtIffNotRunning ==
    \A r \in RunIds : (runs[r].completed_at # None) <=> (runs[r].status # Running)

\* A run that was failed after a transition, beside a run still Running.
C2_Witness ==
    /\ \E r \in RunIds : runs[r].status = Failed /\ Len(runs[r].history) = 2
                         /\ runs[r].completed_at # None
    /\ \E r \in RunIds : runs[r].status = Running /\ runs[r].completed_at = None

\* ------------------------------------------------------------------ C3
\* C3 as stated: once a run's status is Completed, Failed or Cancelled, no
\* later complete, fail or transition_to changes the status.
C3_TerminalStatusKept ==
    [][\A r \in RunIds :
          runs[r].status \in {Completed, Failed, Cancelled}
              => runs'[r].status = runs[r].status]_vars

\* C3 amended: status leaves Running only for Completed or Failed, transition_to
\* never changes it and nothing returns a run to Running; complete and fail are
\* unguarded: complete always leaves Completed and fail always leaves Failed,
\* whatever the status was.
C3_StatusMoves ==
    [][\A r \in RunIds :
          /\ runs'[r].status = Running => runs[r].status = Running
          /\ runs'[r].status # runs[r].status
                => runs'[r].status \in {Completed, Failed}
                   /\ (IsCall("complete", r) \/ IsCall("fail", r))
          /\ IsCall("complete", r) => runs'[r].status = Completed
          /\ IsCall("fail", r) => runs'[r].status = Failed
          /\ IsCall("transition_to", r) => runs'[r].status = runs[r].status]_vars

\* complete() called on a Failed run left it Completed.
C3_Witness ==
    /\ lastOp.op = "complete"
    /\ lastOp.pre_status = Failed
    /\ runs[lastOp.run].status = Completed

\* ------------------------------------------------------------------ C4
\* C4 as stated: once completed_at is set, no later complete, fail or
\* transition_to changes its value.
C4_CompletedAtKept ==
    [][\A r \in RunIds :
          runs[r].completed_at # None
              => runs'[r].completed_at = runs[r].completed_at]_vars

\* C4 amended: once set, completed_at is never cleared and transition_to never
\* changes it; every complete or fail call writes the time of that call, so a
\* later terminal call overwrites the value of the first.
C4_CompletedAtWrites ==
    [][\A r \in RunIds :
          /\ runs[r].completed_at # None => runs'[r].completed_at # None
          /\ runs'[r].completed_at # runs[r].completed_at
                => IsCall("complete", r) \/ IsCall("fail", r)
          /\ IsCall("complete", r) \/ IsCall("fail", r)
                => runs'[r].completed_at = Some(clock)
          /\ IsCall("transition_to", r)
                => runs'[r].completed_at = runs[r].completed_at]_vars

\* A terminal call on a run already completed overwrote completed_at with a
\* later time.
C4_Witness ==
    /\ lastOp.op \in {"complete", "fail"}
    /\ lastOp.pre_completed_at # None
    /\ runs[lastOp.run].completed_at # lastOp.pre_completed_at
    /\ runs[lastOp.run].completed_at = Some(lastOp.now)

\* ------------------------------------------------------------------ C5
\* C5 as stated: transition_to on a run that is not Running leaves history and
\* current_state unchanged.
C5_NoTransitionUnlessRunning ==
    [][\A r \in RunIds :
          runs[r].status # Running
              => /\ runs'[r].history = runs[r].history
                 /\ runs'[r].current_state = runs[r].current_state]_vars

\* C5 amended: transition_to does not look at the status; on a run that is
\* Completed or Failed it still appends (s, now) and sets current_state to s,
\* and leaves status and completed_at as they were.
C5_TransitionIgnoresStatus ==
    [][\A r \in RunIds, s \in StateIds :
          (IsCall("transition_to", r) /\ lastOp'.arg = s /\ runs[r].status # Running)
              => /\ runs'[r].history = Append(runs[r].history, <<s, clock>>)
                 /\ runs'[r].current_state = s
                 /\ runs'[r].status = runs[r].status
                 /\ runs'[r].completed_at = runs[r].completed_at]_vars

\* transition_to was called on a Failed run and moved it to another state.
C5_Witness ==
    /\ lastOp.op = "transition_to"
    /\ lastOp.pre_status = Failed
    /\ runs[lastOp.run].current_state = lastOp.arg
    /\ Len(runs[lastOp.run].history) >= 2
    /\ runs[lastOp.run].history[Len(runs[lastOp.run].history) - 1][1] # lastOp.arg

\* ------------------------------------------------------------------ C6
\* C6: history is append-only and in call order: a step changes a history only
\* by a transition_to call, which keeps every earlier entry at its index and
\* adds exactly one entry whose state is the argument, also when the clock
\* value equals that of the previous entry.
C6_AppendOnly ==
    [][\A r \in RunIds :
          LET h == runs[r].history
              h2 == runs'[r].history
          IN /\ Len(h2) >= Len(h)
             /\ SubSeq(h2, 1, Len(h)) = h
             /\ h2 # h => IsCall("transition_to", r)
             /\ IsCall("transition_to", r)
                   => /\ Len(h2) = Len(h) + 1
                      /\ h2[Len(h2)][1] = lastOp'.arg
                      /\ HistStates(h2) = Append(HistStates(h), lastOp'.arg)]_vars

\* Two transitions to different states read the same clock value and are kept
\* in call order after the initial entry.
C6_Witness ==
    \E r \in RunIds :
        LET h == runs[r].history IN
        /\ Len(h) = 3
        /\ h[2][2] = h[3][2]
        /\ HistStates(h) = <<"start", "processing", "start">>
        /\ lastOp.op = "transition_to" /\ lastOp.run = r /\ lastOp.arg = "start"

\* ------------------------------------------------------------------ C7
\* C7: WorkflowRun::new returns a run with status Running, current_state the
\* workflow's initial state, a history of exactly the entry (initial state,
\* creation time), empty context and metadata, and completed_at unset.
C7_NewRun ==
    lastOp.op = "new"
        => /\ lastOp.run \in RunIds
           /\ LET run == runs[lastOp.run] IN
              /\ run.workflow \in Workflows
              /\ run.status = Running
              /\ run.current_state = run.workflow.initial_state
              /\ run.history = << <<run.workflow.initial_state, lastOp.now>> >>
              /\ run.started_at = lastOp.now
              /\ run.context = EmptyMap
              /\ run.metadata = EmptyMap
              /\ run.completed_at = None

\* A second run was just created, at a later time than the first.
C7_Witness ==
    /\ lastOp.op = "new"
    /\ lastOp.run = 2
    /\ runs[2].started_at > runs[1].started_at
    /\ runs[2].status = Running

\* ------------------------------------------------------------------ C8
\* C8: when the marker exists at a call of WorkflowRun::new and its removal
\* succeeds, the marker is absent when new returns, at every creation.
C8_NewClearsAbort ==
    (lastOp.op = "new" /\ lastOp.pre_abort # None /\ lastOp.outcome = RmOk)
        => abort_file = None

\* The marker was raised again after the first creation and the second
\* creation removed it.
C8_Witness ==
    /\ lastOp.op = "new"
    /\ lastOp.run = 2
    /\ lastOp.pre_abort # None
    /\ lastOp.outcome = RmOk
    /\ abort_file = None

\* ------------------------------------------------------------------ C9
\* C9: whatever remove_file returns (Ok, NotFound, another I/O error),
\* WorkflowRun::new returns a Running run with seeded history; another I/O
\* error is only logged as a warning and leaves the marker as it was.
C9_NewNeverFails ==
    lastOp.op = "new"
        => /\ lastOp.outcome \in {RmOk, RmNotFound, RmOtherErr}
           /\ lastOp.run \in RunIds
           /\ runs[lastOp.run].status = Running
           /\ Len(runs[lastOp.run].history) = 1
           /\ (lastOp.outcome = RmOtherErr
                  => /\ lastOp.log = "warn: Failed to clean up abort file"
                     /\ abort_file = lastOp.pre_abort)
           /\ (lastOp.outcome = RmNotFound => lastOp.log = "")

\* A run was created although removing the existing marker failed.
C9_Witness ==
    /\ lastOp.op = "new"
    /\ lastOp.outcome = RmOtherErr
    /\ lastOp.pre_abort # None
    /\ abort_file # None
    /\ lastOp.run \in RunIds
    /\ runs[lastOp.run].status = Running

\* ------------------------------------------------------------------ C10
\* The step is a call of WorkflowRun::new that returned a run.
IsCreation == lastOp'.op = "new" /\ Len(runs') = Len(runs) + 1

\* C10: once the abort signal is raised it stays raised until the Executor
\* of the run observes it, and after: the Executor's poll finds it and
\* leaves it in place, and the only step that clears the marker is the
\* creation of a fresh run whose remove_file succeeded, also while a run in
\* which it was raised is still Running and has not polled.
C10_RaisedUntilObserved ==
    [][/\ (abort_file # None /\ abort_file' = None)
             => (IsCreation /\ lastOp'.outcome = RmOk)
       /\ \A r \in RunIds :
              IsCall("poll", r)
                  => /\ abort_file # None
                     /\ abort_file' = abort_file
                     /\ r \notin pending'
       /\ \A r \in pending :
              (runs[r].status = Running /\ abort_file # None /\ ~IsCreation)
                  => abort_file' # None]_vars

\* The signal raised in the first run was observed by its Executor, which
\* cancelled the run and left the marker; the creation of the second run has
\* just cleared it.
C10_Witness ==
    /\ Len(runs) = 2
    /\ runs[1].status = Cancelled
    /\ lastOp.op = "new"
    /\ lastOp.run = 2
    /\ lastOp.outcome = RmOk
    /\ lastOp.pre_abort # None
    /\ abort_file = None

\* ------------------------------------------------------------------ C11
\* C11: whenever the Executor finds the abort signal raised at its check, it
\* moves the run to Cancelled and stops, whatever the last action returned; a
\* run stopped by an abort is Cancelled, never Failed.
C11_AbortCancels ==
    [][\A r \in RunIds :
          /\ (exec[r].pc = "check" /\ abort_file # None /\ exec'[r] # exec[r])
                => /\ runs'[r].status = Cancelled
                   /\ exec'[r].pc = "stopped"
                   /\ exec'[r].cause = "abort"
          /\ exec[r].cause = "abort"
                => /\ runs[r].status = Cancelled
                   /\ exec[r].pc = "stopped"
                   /\ runs'[r] = runs[r]]_vars

\* A run whose last action returned a Recoverable failure, and one whose last
\* action returned Success, were cancelled at the next check.
C11_Witness ==
    \E r \in RunIds :
        /\ exec[r].cause = "abort"
        /\ exec[r].result \in {"Recoverable", "Success"}
        /\ runs[r].status = Cancelled
        /\ Len(runs[r].history) = 2

\* ------------------------------------------------------------------ C12
\* C12: when the loop has stopped the status follows the stop cause: Completed
\* exactly when the resolved next state was terminal, Failed when the result
\* was Fatal or no transition applied, Cancelled when the abort was observed;
\* the loop is stopped exactly when the run is no longer Running.
C12_StatusByStopCause ==
    \A r \in RunIds :
        LET run == runs[r]
            e == exec[r]
        IN /\ (e.pc = "stopped") <=> (run.status # Running)
           /\ e.pc = "stopped" =>
                /\ e.cause \in {"terminal", "fatal", "no_transition", "abort"}
                /\ (run.status = Completed) <=> (e.cause = "terminal")
                /\ e.cause = "terminal" => run.current_state \in ExecTerminal
                /\ e.cause = "fatal" => run.status = Failed /\ e.result = "Fatal"
                /\ e.cause = "no_transition"
                      => /\ run.status = Failed
                         /\ e.result # "Fatal"
                         /\ NextState(run.current_state, run.context) = None
                /\ e.cause = "abort" => run.status = Cancelled

\* One run stopped because no transition applied, a later one because it
\* reached the terminal state.
C12_Witness ==
    \E r1, r2 \in RunIds :
        /\ exec[r1].pc = "stopped" /\ exec[r1].cause = "no_transition"
        /\ runs[r1].status = Failed
        /\ exec[r2].pc = "stopped" /\ exec[r2].cause = "terminal"
        /\ runs[r2].status = Completed

\* ------------------------------------------------------------------ C13
\* C13: the workflow start -> working -> done (the second transition on
\* completed = true), executed with actions that set completed = true and
\* without an observed abort, ends Completed with history states
\* start, working, done.
C13_EndToEnd ==
    \A r \in RunIds :
        (exec[r].pc = "stopped" /\ exec[r].clean /\ exec[r].cause # "abort")
            => /\ runs[r].status = Completed
               /\ HistStates(runs[r].history) = <<"start", "working", "done">>
               /\ runs[r].current_state = "done"

\* Such a run has finished.
C13_Witness ==
    \E r \in RunIds :
        /\ exec[r].pc = "stopped"
        /\ exec[r].clean
        /\ exec[r].cause = "terminal"
        /\ exec[r].result = "SuccessCompleted"
        /\ runs[r].status = Completed
        /\ runs[r].context = [completed |-> TRUE]

\* ------------------------------------------------------------------ C14
\* C14: the identifiers created in one process are pairwise distinct and
\* strictly increasing in creation order, and so are their string encodings
\* in lexicographic order, also for creations within one clock tick.
C14_IdsIncrease ==
    \A i, j \in 1..Len(ids) :
        i < j => /\ ids[i] # ids[j]
                 /\ UlidLess(ids[i], ids[j])
                 /\ StrLess(to_string(ids[i]), to_string(ids[j]))

\* Two identifiers were created within one tick and a third in a later tick
\* with a smaller random part.
C14_Witness ==
    /\ Len(ids) >= 3
    /\ ids[1].ts = ids[2].ts
    /\ ids[2].ts < ids[3].ts
    /\ ids[3].rand < ids[2].rand

\* ------------------------------------------------------------------ C15
\* The invocation i is inside a version-control critical section.
InGitSection(i) == inv[i].pc \in {"git", "git2"}

\* C15: whatever the interleaving of handle_issue_current, handle_issue_work,
\* handle_issue_merge and MergeIssueTool::execute, at most one invocation is
\* inside a version-control critical section, holding the git_ops lock.
C15_OneGitUser ==
    /\ Cardinality(git_holders) <= 1
    /\ \A i \in 1..Len(inv) : InGitSection(i) <=> HoldsGit(i)
    /\ \A i, j \in 1..Len(inv) : InGitSection(i) /\ InGitSection(j) => i = j

\* A merge is inside its critical section while handle_issue_current has to
\* wait for the lock.
C15_Witness ==
    \E i, j \in 1..Len(inv) :
        /\ inv[i].op \in {"handle_issue_merge", "execute"}
        /\ InGitSection(i)
        /\ At(j, "handle_issue_current", "start")
        /\ Blocked(j)

\* ------------------------------------------------------------------ C16
ReaderOps == {"handle_issue_all_complete", "handle_issue_work", "handle_issue_merge", "execute"}
WriterOps == {"handle_issue_create", "handle_issue_mark_complete", "handle_issue_update"}

\* C16: in every state nobody holds the issue store, or readers hold it and
\* no writer does, or exactly one writer holds it and nobody else; the
\* readers and the writers are the handlers the claim names.
C16_SharedExclusive ==
    /\ \/ store_readers = {} /\ store_writers = {}
       \/ store_readers # {} /\ store_writers = {}
       \/ Cardinality(store_writers) = 1 /\ store_readers = {}
    /\ \A i \in store_readers : inv[i].op \in ReaderOps
    /\ \A i \in store_writers : inv[i].op \in WriterOps

\* Two readers hold the store at once; elsewhere a writer holds it while a
\* reader waits (the two cases need separate states, this is the first).
C16_Witness ==
    /\ Cardinality(store_readers) = 2
    /\ store_writers = {}

\* ------------------------------------------------------------------ C17
\* C17: no invocation holds the issue-store lock and the version-control
\* lock at the same time.
C17_NeverBothLocks ==
    \A i \in 1..Len(inv) : ~(HoldsStore(i) /\ HoldsGit(i))

\* ------------------------------------------------------------------ C18
\* C18: under fair scheduling and terminating collaborator calls, in no state
\* is every unfinished invocation blocked on a lock, and every invocation
\* that was started returns: again and again none is unfinished.
C18_DeadlockFree ==
    /\ [](Unfinished # {} => \E i \in Unfinished : ~Blocked(i))
    /\ []<>(Unfinished = {})

\* MergeIssueTool::execute holds both locks while a writer waits for the
\* store.
C18_Witness ==
    \E i, j \in 1..Len(inv) :
        /\ inv[i].op = "execute"
        /\ HoldsStore(i) /\ HoldsGit(i)
        /\ inv[j].op \in WriterOps
        /\ Blocked(j)

\* ------------------------------------------------------------------ C19
\* C19: an invocation that has returned, on whatever exit path, holds
\* neither the issue-store lock nor the version-control lock.
C19_NoGuardOutlives ==
    \A i \in 1..Len(inv) :
        inv[i].pc = "done" => ~HoldsStore(i) /\ ~HoldsGit(i)

\* handle_issue_merge returned early from inside the clean check, and
\* MergeIssueTool::execute returned an Err from inside the merge.
C19_Witness ==
    \E i, j \in 1..Len(inv) :
        /\ At(i, "handle_issue_merge", "done")
        /\ inv[i].ret = "error: Working directory is not clean"
        /\ At(j, "execute", "done")
        /\ inv[j].ret = "Err: merge issue branch"

\* ------------------------------------------------------------------ C20
\* The update invocations, and those that returned success.
Updaters == {i \in 1..Len(inv) : inv[i].op = "handle_issue_update"}
Updated == {i \in Updaters : inv[i].pc = "done" /\ inv[i].ret = "success: Updated issue"}

\* The invocation i is inside update_issue.
Writing(i) == inv[i].pc \in {"store", "store2"}

\* C20: concurrent handle_issue_update writes never interleave: a second
\* write starts only after the first completed, the content is never left
\* torn, and once the updates have returned the content is exactly the
\* payload of one of those that succeeded.
C20_WritesDoNotInterleave ==
    /\ \A i, j \in Updaters : Writing(i) /\ Writing(j) => i = j
    /\ (\A i \in Updaters : inv[i].pc # "store2") => issue.content[1] = issue.content[2]
    /\ (Updaters \cap Unfinished = {} /\ Updated # {}) =>
           \E i \in Updated :
               issue.content = <<inv[i].request.content, inv[i].request.content>>

\* Two updates with different payloads have both succeeded.
C20_Witness ==
    \E i, j \in Updated : inv[i].request.content # inv[j].request.content

\* ------------------------------------------------------------------ C21
MergeOps == {"handle_issue_merge", "execute"}

\* The error responses for an issue that is not completed, and the results
\* of a failed lookup of the issue.
NotCompletedResponses ==
    {"error: Issue is not completed", "error: Issue must be completed before merging"}
LookupFailures == {"error: Failed to get issue", "Err: get issue for merge"}

\* A merge that is past its look at the issue, or has called version
\* control, found the issue completed.
MergePastCheck ==
    \A i \in 1..Len(inv) :
        (inv[i].op \in MergeOps /\ (inv[i].pc \in {"git_wait", "git", "git_wait2", "git2"}
                                    \/ inv[i].vc # <<>>))
            => issue.completed

\* C21: handle_issue_merge and MergeIssueTool::execute, finding the issue
\* not completed, return an error response (no Err), call no version-control
\* operation, take no version-control lock and leave the issue store as it
\* is.
C21_IncompleteMergeRejected ==
    [][/\ MergePastCheck'
       /\ \A i \in 1..Len(inv) :
              (inv[i].op \in MergeOps /\ inv[i].pc = "store" /\ inv'[i].pc # "store"
                   /\ ~issue.completed)
                  => /\ inv'[i].pc = "done"
                     /\ inv'[i].ret \in NotCompletedResponses \cup LookupFailures
                     /\ inv'[i].vc = <<>>
                     /\ issue' = issue
                     /\ ~HoldsGit(i)'
                     /\ ~HoldsStore(i)']_vars

\* Both merge operations have turned down an issue that is not completed.
C21_Witness ==
    /\ ~issue.completed
    /\ \E i, j \in 1..Len(inv) :
           /\ At(i, "handle_issue_merge", "done")
           /\ inv[i].ret = "error: Issue is not completed"
           /\ At(j, "execute", "done")
           /\ inv[j].ret = "error: Issue must be completed before merging"

\* ------------------------------------------------------------------ C22
\* The merges that returned after their branch merge failed.
FailedMerges ==
    {i \in 1..Len(inv) : inv[i].op \in MergeOps /\ inv[i].pc = "done" /\ inv[i].detail.text # <<>>}

\* The kinds of result: an Err ends the Run as Failed (Fatal), an error
\* response is Recoverable.
IsFatal(ret) == ret \in {"Err: merge issue branch"}
IsRecoverable(ret) == ret \in {"error: Failed to merge branch"}

\* C22: a merge error whose text holds one of the markers is classified
\* irrecoverable (Fatal), one that holds none is classified Recoverable, and
\* the two classes give different kinds of result.
C22_ClassifiedByText ==
    /\ \A i \in FailedMerges :
           IF IsIrrecoverable(inv[i].detail.text)
           THEN IsFatal(inv[i].ret)
           ELSE IsRecoverable(inv[i].ret)
    /\ \A i, j \in FailedMerges :
           IsIrrecoverable(inv[i].detail.text) # IsIrrecoverable(inv[j].detail.text)
               => inv[i].ret # inv[j].ret

\* ------------------------------------------------------------------ C23
\* The merges that returned the success response.
SucceededMerges ==
    {i \in 1..Len(inv) : inv[i].op \in MergeOps /\ inv[i].pc = "done"
                          /\ inv[i].ret = "success: Merged work branch"}

\* C23: a successful merge went into the branch the issue branch was created
\* from, and the success message names that branch, whichever it is.
C23_TargetByAncestry ==
    \A i \in SucceededMerges :
        /\ inv[i].detail.merged_into \in Branches
        /\ inv[i].detail.target = inv[i].detail.merged_into

\* ------------------------------------------------------------------ C24
\* The invocation i called delete_branch.
CalledDelete(i) == \E k \in 1..Len(inv[i].vc) : inv[i].vc[k] = "delete_branch"

\* C24: the source branch is deleted only after a successful merge and only
\* when delete_branch is requested; a failed deletion leaves the success
\* response in place with the failure in the message; after a failed merge
\* no deletion is tried.
C24_DeletionIsSecondary ==
    \A i \in 1..Len(inv) :
        /\ CalledDelete(i) =>
               /\ inv[i].op \in MergeOps
               /\ inv[i].request.delete_branch
               /\ i \in SucceededMerges
               /\ \E k, l \in 1..Len(inv[i].vc) :
                      /\ k < l
                      /\ inv[i].vc[k] \in {"merge_issue_branch", "merge_issue_branch_auto"}
                      /\ inv[i].vc[l] = "delete_branch"
        /\ i \in SucceededMerges =>
               /\ CalledDelete(i) <=> inv[i].request.delete_branch
               /\ inv[i].detail.deleted = "Err" <=> inv[i].detail.deletion = "but failed to delete branch"
               /\ inv[i].detail.deleted = "Ok" <=> inv[i].detail.deletion = "and deleted branch"
               /\ inv[i].detail.deleted = "" <=> ~inv[i].request.delete_branch
        /\ i \in FailedMerges => ~CalledDelete(i) /\ inv[i].detail.deleted = ""

\* One merge succeeded although the deletion it was asked for failed, and
\* another, asked for the deletion too, failed in the merge.
C24_Witness ==
    \E i \in SucceededMerges, j \in FailedMerges :
        /\ inv[i].detail.deleted = "Err"
        /\ inv[j].request.delete_branch

\* ------------------------------------------------------------------ C25
\* The operations that use the version-control handle.
GitOps == {"handle_issue_current", "handle_issue_work", "handle_issue_merge", "execute"}

NotAvailable == "error: Git operations not available"

\* C25: with no version-control handle configured, each of
\* handle_issue_current, handle_issue_work, handle_issue_merge and
\* MergeIssueTool::execute that comes to use the handle returns the error
\* response "Git operations not available", calls no version-control
\* operation, leaves the issue store as it is and, once returned, does
\* nothing more.
C25_NoHandleNoMutation ==
    [][git_ops = None =>
          \A i \in 1..Len(inv) :
              /\ inv'[i].vc = <<>>
              /\ (inv[i].op \in GitOps /\ inv[i].pc \in {"git", "git2"} /\ inv'[i].pc = "done")
                     => /\ inv'[i].ret = NotAvailable
                        /\ inv'[i].detail = NoDetail
                        /\ issue' = issue
                        /\ git_ops' = git_ops
              /\ (inv[i].op \in GitOps /\ inv[i].pc # "done" /\ inv'[i].pc = "done")
                     => inv'[i].ret \in {NotAvailable} \cup NotCompletedResponses \cup LookupFailures
                                          \cup {"Err: invalid arguments"}
              /\ inv[i].pc = "done" => inv'[i] = inv[i]]_vars

\* Without a handle, handle_issue_merge and MergeIssueTool::execute have both
\* answered that git operations are not available.
C25_Witness ==
    /\ git_ops = None
    /\ \E i, j \in 1..Len(inv) :
           /\ At(i, "handle_issue_merge", "done")
           /\ At(j, "execute", "done")
           /\ inv[i].ret = NotAvailable
           /\ inv[j].ret = NotAvailable

\* ------------------------------------------------------------------ C26
\* The invocations whose request is malformed: an invalid issue name for
\* handle_issue_create, arguments that do not parse for
\* MergeIssueTool::execute.
Malformed ==
    {i \in 1..Len(inv) : inv[i].op \in {"handle_issue_create", "execute"} /\ ~inv[i].request.valid}

ValidationErrors == {"Err: invalid issue name", "Err: invalid arguments"}

\* C26: a malformed request is turned down in the first step of its handler
\* with an Err, no lock taken by it, before or after, and no state changed.
C26_RejectedBeforeResources ==
    [][\A i \in Malformed :
           /\ inv[i].pc \in {"start", "done"}
           /\ inv'[i].pc \in {"start", "done"}
           /\ ~HoldsStore(i) /\ ~HoldsGit(i)
           /\ ~HoldsStore(i)' /\ ~HoldsGit(i)'
           /\ (inv[i].pc = "start" /\ inv'[i].pc = "done")
                  => /\ inv'[i].ret \in ValidationErrors
                     /\ inv'[i].vc = <<>>
                     /\ UNCHANGED <<store_readers, store_writers, git_holders, issue, git_ops>>]_vars

\* Both kinds of malformed request have been turned down.
C26_Witness ==
    \E i, j \in Malformed :
        /\ At(i, "handle_issue_create", "done")
        /\ inv[i].ret = "Err: invalid issue name"
        /\ At(j, "execute", "done")
        /\ inv[j].ret = "Err: invalid arguments"

\* ------------------------------------------------------------------ C27
\* The timestamps of a history never go down.
NonDecreasing(h) == \A k \in 1..(Len(h) - 1) : h[k][2] <= h[k + 1][2]

\* C27: after any transition_to(s) the last entry of the history is (s, t)
\* with t the time of the call, not before the timestamp of the entry that
\* was last until then; so the timestamps of a history never go down. The
\* time of the call is what the wall clock reads, also after it was set back.
C27_TimestampsOrdered ==
    [][\A r \in RunIds :
           IsCall("transition_to", r) =>
               LET h == runs[r].history
                   h2 == runs'[r].history
               IN /\ h2[Len(h2)] = <<lastOp'.arg, clock>>
                  /\ h2[Len(h2)][2] >= h[Len(h)][2]
                  /\ NonDecreasing(h2)]_vars

\* ------------------------------------------------------------------ C28
\* C28: every template a render call has run on passed
\* validate_template_security on the way from its constructor, whichever
\* constructor made it: its text is one the validation accepts, at least as
\* a trusted text.
C28_ValidatedBeforeRender ==
    out # None =>
        /\ tpl[1].validated
        /\ validate_template_security(tpl[1].template_str, TRUE)

\* ------------------------------------------------------------------ C29
\* The value of a name by precedence: the argument, else the environment
\* variable, else the configuration variable, else Nil.
ByPrecedence(var, args, environment, configuration) ==
    IF var \in DOMAIN args THEN Some(args[var])
    ELSE IF var \in DOMAIN environment THEN Some(environment[var])
    ELSE IF configuration # None /\ var \in DOMAIN configuration[1]
         THEN Some(configuration[1][var])
    ELSE None

\* The render call did not stop at a name that no source and no binding
\* to Nil put into the object.
NoUnknownVariable(result) == result.ok \/ result.text[1] # "Unknown variable"

\* C29: render_with_config renders every name with its argument if there is
\* one, else with its environment variable, else with its configuration
\* variable; render_with_env renders it with its argument if there is one,
\* else with its environment variable; for every name and every combination
\* of the sources.
C29_Precedence ==
    [][\A method \in {"render_with_env", "render_with_config"}, args \in MapsTo(ArgValue) :
           (Render(method, args) /\ NoUnknownVariable(out'.result)) =>
               out'.result =
                   liquid_render(tpl[1].template_str,
                                 [var \in VarNames |->
                                     ByPrecedence(var, args, env,
                                                  IF method = "render_with_config"
                                                  THEN config ELSE None)])]_vars

\* render_with_config ran on "Project: {{ name }}, Env: {{ TEST_VAR }}" with
\* TEST_VAR in all three sources and name in the environment and the
\* configuration only.
C29_Witness ==
    /\ out # None
    /\ out.method = "render_with_config"
    /\ DOMAIN out.args = {"TEST_VAR"}
    /\ DOMAIN env = VarNames
    /\ config # None
    /\ DOMAIN config[1] = VarNames
    /\ out.result = Rendered(<<"Project: ", EnvValue, ", Env: ", ArgValue>>)

\* ------------------------------------------------------------------ C30
\* C30: Template::render never fails for a variable that was not supplied:
\* a name of the template without an argument renders as nothing, or as the
\* value of its default filter.
C30_MissingVariableRendersEmpty ==
    (out # None /\ out.method = "render") => NoUnknownVariable(out.result)

\* ------------------------------------------------------------------ C34
\* C34: through new, transition_to, complete and fail a run is only ever
\* Running, Completed or Failed, never Cancelled or Paused, and no call
\* returns a run that left Running to Running.
C34_ReachableStatuses ==
    /\ [](\A r \in RunIds : runs[r].status \in {Running, Completed, Failed})
    /\ [][\A r \in RunIds :
              runs[r].status # Running => runs'[r].status # Running]_vars

\* transition_to was called on a Completed run, beside a Failed run: both
\* terminal statuses are reached and the call left the run Completed.
C34_Witness ==
    /\ lastOp.op = "transition_to"
    /\ lastOp.pre_status = Completed
    /\ runs[lastOp.run].status = Completed
    /\ \E r \in RunIds : runs[r].status = Failed

\* ------------------------------------------------------------------ C35
\* The fields of WorkflowRun.
RunFields ==
    {"id", "workflow", "current_state", "history", "context", "status",
     "started_at", "completed_at", "metadata"}

\* The two runs differ at most in the given fields.
SameExcept(run, run2, fields) == \A f \in RunFields \ fields : run2[f] = run[f]

\* C35: transition_to changes only history and current_state; complete and
\* fail change only status and completed_at; every other field of the run,
\* and the abort marker, are as before the call.
C35_Frames ==
    [][\A r \in RunIds :
           /\ IsCall("transition_to", r)
                 => /\ SameExcept(runs[r], runs'[r], {"history", "current_state"})
                    /\ abort_file' = abort_file
           /\ IsCall("complete", r) \/ IsCall("fail", r)
                 => /\ SameExcept(runs[r], runs'[r], {"status", "completed_at"})
                    /\ abort_file' = abort_file]_vars

\* fail was called, after a transition and a complete, on a run with a
\* variable in its context and a note in its metadata, while the marker
\* exists.
C35_Witness ==
    /\ lastOp.op = "fail"
    /\ lastOp.pre_status = Completed
    /\ lastOp.pre_abort # None
    /\ abort_file # None
    /\ Len(runs[lastOp.run].history) >= 2
    /\ runs[lastOp.run].context # EmptyMap
    /\ runs[lastOp.run].metadata # EmptyMap

\* ------------------------------------------------------------------ C32
\* The invocation is a handle_issue_merge that has made its clean check and
\* not yet its merge.
BetweenCheckAndMerge(i) ==
    /\ inv[i].op = "handle_issue_merge"
    /\ inv[i].pc \in {"git_wait2", "git2"}
    /\ inv[i].vc = <<"git status">>

\* C32: between the clean check of a handle_issue_merge and the merge that
\* follows it no other invocation makes a version-control call.
C32_CheckAndMergeAtomic ==
    [][\A i \in 1..Len(inv) :
           BetweenCheckAndMerge(i) =>
               \A j \in 1..Len(inv) \ {i} : inv'[j].vc = inv[j].vc]_vars

\* ------------------------------------------------------------------ C33
\* C33: whatever get_last_commit_info returned after a successful merge, the
\* commit information is built without panic: from four or more parts, the
\* first HashLen characters of the first part (all of it when it has fewer
\* characters) with message, author and date; from fewer parts, the string
\* whole; from an error, nothing.
C33_CommitInfoNoPanic ==
    (commit # None /\ commit[1].built # None) =>
        LET result == commit[1].result
            built == commit[1].built[1]
        IN /\ ~built.panic
           /\ result = None => built = NoSuffix
           /\ (result # None /\ Len(split(result[1], "|")) < 4)
                 => built = [NoSuffix EXCEPT !.form = "Merge commit", !.info = result[1]]
           /\ (result # None /\ Len(split(result[1], "|")) >= 4)
                 => LET first == split(result[1], "|")[1]
                    IN /\ Len(built.hash) <= HashLen
                       /\ built.hash = SubSeq(first, 1, Len(built.hash))
                       /\ Len(built.hash) < HashLen => built.hash = first

\* ------------------------------------------------------------------ C36
\* The error is an ExecutorError::Abort inside a SwissArmyHammerError.
IsAbort(e) ==
    e.type = "SwissArmyHammerError" /\ e.variant = "ExecutorError" /\ e.inner = "Abort"

\* C36: the prompt test command returns Ok when the runner succeeds; when the
\* runner fails with ExecutorError::Abort(reason) it returns the error
\* "Prompt execution aborted: <reason>" with exit code EXIT_ERROR; for every
\* other failure it returns the error's own text with exit code 1.
C36_AbortSurfaced ==
    (cli # None /\ cli[1].subcommand.kind = "Test") =>
        LET returned == cli[1].returned
            result == cli[1].result
        IN /\ returned.ok <=> result.ok
           /\ (~returned.ok /\ IsAbort(returned.error))
                 => /\ result.message = <<"Prompt execution aborted: ", returned.error.reason>>
                    /\ result.exit_code = "EXIT_ERROR"
           /\ (~returned.ok /\ ~IsAbort(returned.error))
                 => /\ result.message = returned.error.text
                    /\ result.exit_code = "1"

\* The runner of a prompt test was aborted with a reason, and the command
\* returned it in its message.
C36_Witness ==
    /\ cli # None
    /\ cli[1].subcommand.kind = "Test"
    /\ ~cli[1].returned.ok
    /\ cli[1].returned.error.inner = "Abort"
    /\ cli[1].returned.error.reason = "test abort reason"
    /\ cli[1].result.message = <<"Prompt execution aborted: ", "test abort reason">>

\* ------------------------------------------------------------------ C31
\* The prompts of the library that the bare name stands for: the prompt of
\* that name, and the prompts of that name followed by an extension, in the
\* order of the extensions.
NamedBy(lib, name) ==
    LET spelled == <<name>> \o [k \in 1..Len(extensions) |-> name \o extensions[k]]
    IN SelectSeq(spelled, LAMBDA n : n \in lib)

\* C31 as stated: when the library holds a prompt named N, or N followed by
\* .md, .markdown, .liquid or .md.liquid, a template that renders partial N
\* gets the template text of such a prompt.
C31_BareNameResolves ==
    (partials # None /\ partials[1].lookup # None) =>
        LET lib == partials[1].library
            lookup == partials[1].lookup[1]
        IN NamedBy(lib, lookup.name) # <<>> =>
               \E k \in 1..Len(NamedBy(lib, lookup.name)) :
                   lookup.rendered = Some(TemplateOf(NamedBy(lib, lookup.name)[k]))

\* ------------------------------------------------------------------ C37
\* C37: contains(name) is true exactly when try_get(name) returns a
\* template, and the template is that of the first name the library holds
\* among: the name; the name with .md, .markdown, .liquid, .md.liquid; and,
\* for a name with a '.', the name without a known extension and that name
\* with each other extension.
C37_ContainsAgreesWithTryGet ==
    (partials # None /\ partials[1].lookup # None) =>
        LET lib == partials[1].library
            lookup == partials[1].lookup[1]
            tried == Candidates(lookup.name)
            held == {k \in 1..Len(tried) : tried[k] \in lib}
        IN /\ lookup.contains <=> lookup.try_get # None
           /\ lookup.contains <=> held # {}
           /\ held # {} =>
                  \E k \in held :
                      /\ \A j \in held : k <= j
                      /\ lookup.try_get = Some(TemplateOf(tried[k]))

\* principals.md was looked up in a library that holds principals.liquid
\* only: found by stripping .md and trying the other extensions.
C37_Witness ==
    /\ partials # None
    /\ partials[1].library = {<<"principals", ".liquid">>}
    /\ partials[1].lookup # None
    /\ partials[1].lookup[1].name = <<"principals", ".md">>
    /\ partials[1].lookup[1].contains
    /\ partials[1].lookup[1].try_get = Some(TemplateOf(<<"principals", ".liquid">>))

\* ------------------------------------------------------------------ C38
\* The names that become a prompt name of the library when one of the
\* extensions is put behind them.
WithoutExtension(lib) ==
    {n \in UNION {{SubSeq(name, 1, j) : j \in 1..Len(name)} : name \in lib} :
        \E k \in 1..Len(extensions) : n \o extensions[k] \in lib}

\* Every name of names() is found by contains and by try_get.
Resolvable(lib, names) ==
    \A n \in names : PartialSource_contains(lib, n) /\ try_get(lib, n) # None

====
